---- MODULE Spec2Model ----
(***************************************************************************)
(* A model of the twitch-bot WebSocket relay: the message envelope layer,  *)
(* the handler registry, the handlers, the WebSocketManager and the        *)
(* connection lifecycle of the server entry points.                        *)
(*                                                                         *)
(* JavaScript values are tagged records ([t |-> "string", v |-> "hello"]), *)
(* objects are functions from their own keys to values, and a raw text     *)
(* frame is the JSON document it spells (or a syntax error) plus whether   *)
(* it is padded with white space.                                          *)
(***************************************************************************)
EXTENDS Integers, Sequences, FiniteSets, TLC

(***************************************************************************)
(* Bounds of the model.                                                    *)
(***************************************************************************)
\* number of sockets that may ever be accepted
MaxConn == 2
\* number of external events (text frames received, OBS stream events) the server
\* handles in one behaviour
MaxFrames == 1
\* the clock (new Date()) runs from 0 to MaxClock
MaxClock == 1
\* number of register() calls in the registry's own specification
MaxHandlers == 2
\* number of server-originated pushes (broadcast, sendToClient) in one behaviour
MaxBroadcasts == 1
\* number of text frames the clients send in one behaviour of SpecPipeline
MaxPipelined == 2

\* the sockets the listener may accept
Conns == 1..MaxConn
\* the socket objects there are; the WebSocketManager may be handed any of them
Sockets == 1..MaxConn

VARIABLES
    clock,        \* the wall clock read by new Date()
    handlers,     \* MessageHandlerRegistry.handlers: handler classes, in registration order
    connections,  \* WebSocketManager.connections: a Set, kept in insertion order
    readyState,   \* readyState[c]: the transport state of socket c
    sent,         \* sent[c]: the text frames ws.send put on socket c, in order
    obsEnabled,   \* OBSService._isEnabled (OBS_INTEGRATION_ENABLED is not 'false')
    obsConnected, \* OBSService._isConnected
    obsStreaming, \* whether the OBS process has its stream output active
    accepted,     \* the sockets the listener has accepted
    calls,        \* the callbacks suspended at an await, in the order they started
    pushes,       \* number of external events (pushes, frames, stream events) so far
    twitchManager, \* the fields of the TwitchManager singleton
    tmi,          \* the tmi.js clients created so far; twitchManager.client is an index
    authState,    \* TwitchAuthService.authState
    proc,         \* the process: signals received, grace timers, listener, exit code
    last          \* the most recent operation and what it returned (observation only)

vars == <<clock, handlers, connections, readyState, sent, obsEnabled, obsConnected,
          obsStreaming, accepted, calls, pushes, twitchManager, tmi, authState, proc, last>>

(***************************************************************************)
(* JavaScript / JSON values.                                               *)
(***************************************************************************)
Undefined == [t |-> "undefined"]
JNull == [t |-> "null"]
JNumber == [t |-> "number"]
JArray == [t |-> "array"]
JStr(s) == [t |-> "string", v |-> s]
JBool(b) == [t |-> "boolean", v |-> b]
JObj(f) == [t |-> "object", v |-> f]
\* A Promise object: it has no enumerable own property.
JPromise == [t |-> "promise"]
\* A Date object holding clock value n.
JDate(n) == [t |-> "date", v |-> n]

\* Reading a property of null or undefined throws a TypeError.
CanRead(x) == x.t \notin {"null", "undefined"}

\* x[k] for a value x other than null and undefined: the own property, or undefined.
Prop(x, k) == IF x.t = "object" /\ k \in DOMAIN x.v THEN x.v[k] ELSE Undefined

\* new Date().toISOString() at clock value n
ISOStrings == <<"2025-01-01T00:00:00.000Z", "2025-01-01T00:00:01.000Z",
                "2025-01-01T00:00:02.000Z", "2025-01-01T00:00:03.000Z",
                "2025-01-01T00:00:04.000Z", "2025-01-01T00:00:05.000Z">>
\* A clock that is read once, at start-up.
toISOString_atStartup(n) == JStr(ISOStrings[1])

toISOString(n) == JStr(ISOStrings[n + 1])

(***************************************************************************)
(* JSON.stringify and JSON.parse.                                          *)
(* stringify drops the keys whose value is undefined, spells a Promise as  *)
(* {} and a Date as the string its toJSON returns; the wire text is        *)
(* represented by the document it spells.                                  *)
(***************************************************************************)
RECURSIVE StringifyValue(_)
StringifyValue(x) ==
    IF x.t = "promise" THEN JObj(<< >>)
    ELSE IF x.t = "date" THEN toISOString(x.v)
    ELSE IF x.t = "object"
         THEN JObj([k \in {kk \in DOMAIN x.v : x.v[kk].t # "undefined"} |->
                        StringifyValue(x.v[k])])
         ELSE x

\* A text frame: ok = FALSE is a syntax error, pad = white space around the text.
Text(doc) == [ok |-> TRUE, pad |-> FALSE, doc |-> doc]
Padded(txt) == [txt EXCEPT !.pad = TRUE]
Garbage == [ok |-> FALSE, pad |-> FALSE, doc |-> JNull]

JSONstringify(x) == Text(StringifyValue(x))

\* String.prototype.trim
Trim(txt) == [txt EXCEPT !.pad = FALSE]

\* JSON.parse: white space around the document is allowed; a syntax error throws.
ParseThrows(txt) == ~txt.ok
JSONparse(txt) == txt.doc

\* A string whose characters are those of a text frame.
RawStr(txt) == [t |-> "string", raw |-> txt]

(***************************************************************************)
(* shared-types: type guards and message builders.                         *)
(***************************************************************************)
isHelloRequest(message) == Prop(message, "eventType") = JStr("hello")
isPingRequest(message) == Prop(message, "eventType") = JStr("ping")
isToggleStreamRequest(message) == Prop(message, "eventType") = JStr("toggle-stream")
isTwitchRequest(message) == Prop(message, "eventType") = JStr("twitch")
isTwitchAuthRequest(message) == Prop(message, "eventType") = JStr("twitch_auth")

Envelope(eventType, eventBody) ==
    JObj([eventType |-> JStr(eventType), eventBody |-> JObj(eventBody)])

createHelloResponse(message) ==
    Envelope("hello-response", [message |-> message, timestamp |-> toISOString(clock)])

createPongResponse(message, originalBody) ==
    Envelope("pong-response", [message |-> message, originalBody |-> originalBody,
                               timestamp |-> toISOString(clock)])

\* The second and third arguments land in each other's field.
createErrorResponse_swapped(message, eventType, originalMessage) ==
    Envelope("error", [message |-> message, eventType |-> originalMessage,
                       originalMessage |-> eventType,
                       timestamp |-> toISOString(clock)])

createErrorResponse(message, eventType, originalMessage) ==
    Envelope("error", [message |-> message, eventType |-> eventType,
                       originalMessage |-> originalMessage,
                       timestamp |-> toISOString(clock)])

createObsStateResponse(streaming) ==
    Envelope("obs-state", [streaming |-> JBool(streaming), timestamp |-> toISOString(clock)])

createTwitchConnectResponse(success, connected, message, error) ==
    Envelope("twitch-connect-response",
             [success |-> JBool(success), connected |-> JBool(connected),
              message |-> message, error |-> error, timestamp |-> toISOString(clock)])

createTwitchAuthResponse(success, message, error, data) ==
    Envelope("twitch_auth-response",
             [success |-> JBool(success), message |-> message, error |-> error,
              data |-> data, timestamp |-> toISOString(clock)])

createTwitchAuthStateResponse(state) ==
    Envelope("twitch_auth_state", [authState |-> state, timestamp |-> toISOString(clock)])

(***************************************************************************)
(* What a call returns: a value, a thrown error, or a promise that is      *)
(* fulfilled, rejected, or still pending at the await named by v.          *)
(***************************************************************************)
Value(v) == [s |-> "value", v |-> v]
Thrown(e) == [s |-> "thrown", v |-> JStr(e)]
Fulfilled(v) == [s |-> "fulfilled", v |-> v]
Rejected(e) == [s |-> "rejected", v |-> JStr(e)]
Pending(pc) == [s |-> "pending", v |-> JStr(pc)]

(***************************************************************************)
(* The handlers.                                                           *)
(***************************************************************************)
HandlerClasses ==
    {"HelloHandler", "PingHandler", "ToggleStreamHandler", "TwitchHandler", "TwitchAuthHandler"}

getEventType(cls) ==
    CASE cls = "HelloHandler" -> "hello"
      [] cls = "PingHandler" -> "ping"
      [] cls = "ToggleStreamHandler" -> "toggle-stream"
      [] cls = "TwitchHandler" -> "twitch"
      [] cls = "TwitchAuthHandler" -> "twitch_auth"

\* A TwitchHandler that also takes the twitch_auth envelopes.
canHandle_twitchPrefix(cls, message) ==
    CASE cls = "HelloHandler" -> isHelloRequest(message)
      [] cls = "PingHandler" -> isPingRequest(message)
      [] cls = "ToggleStreamHandler" -> isToggleStreamRequest(message)
      [] cls = "TwitchHandler" -> Prop(message, "eventType") \in {JStr("twitch"), JStr("twitch_auth")}
      [] cls = "TwitchAuthHandler" -> Prop(message, "eventType") = JStr("twitch_auth")

canHandle(cls, message) ==
    CASE cls = "HelloHandler" -> isHelloRequest(message)
      [] cls = "PingHandler" -> isPingRequest(message)
      [] cls = "ToggleStreamHandler" -> isToggleStreamRequest(message)
      [] cls = "TwitchHandler" -> Prop(message, "eventType") = JStr("twitch")
      [] cls = "TwitchAuthHandler" -> Prop(message, "eventType") = JStr("twitch_auth")

\* async: the body runs to its return, the promise is already settled.
HelloHandler_handle(message) ==
    IF ~isHelloRequest(message)
    THEN Rejected("HelloHandler received non-hello message")
    ELSE Fulfilled(createHelloResponse(JStr("world")))

\* Echoes the whole request instead of its body.
PingHandler_handle_echoesMessage(message) ==
    IF ~isPingRequest(message)
    THEN Thrown("PingHandler received non-ping message")
    ELSE Value(createPongResponse(JStr("pong"), message))

\* not async: returns the envelope itself, or throws.
PingHandler_handle(message) ==
    IF ~isPingRequest(message)
    THEN Thrown("PingHandler received non-ping message")
    ELSE Value(createPongResponse(JStr("pong"), Prop(message, "eventBody")))

\* A handler that does not look at isEnabled.
ToggleStreamHandler_handle_ignoresDisabled(message) ==
    IF ~isToggleStreamRequest(message)
    THEN Rejected("ToggleStreamHandler received incompatible message")
    ELSE IF ~obsConnected
         THEN Pending("connect")
         ELSE Pending("GetStreamStatus")

\* async: up to its first await on the OBS client.
ToggleStreamHandler_handle(message) ==
    IF ~isToggleStreamRequest(message)
    THEN Rejected("ToggleStreamHandler received incompatible message")
    ELSE IF ~obsEnabled
         THEN Fulfilled(createObsStateResponse(FALSE))
         ELSE IF ~obsConnected
              THEN Pending("connect")
              ELSE Pending("GetStreamStatus")

\* async: destructuring an absent or null eventBody throws inside the body.
TwitchHandler_handle(message) ==
    IF ~isTwitchRequest(message)
    THEN Rejected("TwitchHandler received non-twitch message")
    ELSE IF ~CanRead(Prop(message, "eventBody"))
         THEN Rejected("TypeError")
         ELSE Fulfilled(createTwitchConnectResponse(FALSE, FALSE, Undefined,
                                                    JStr("Unknown twitch action")))

TwitchAuthHandler_handle(message) ==
    IF Prop(message, "eventType") # JStr("twitch_auth")
    THEN Rejected("TwitchAuthHandler received non-twitch_auth message")
    ELSE IF ~CanRead(Prop(message, "eventBody"))
         THEN Rejected("TypeError")
         ELSE Fulfilled(createTwitchAuthResponse(FALSE, Undefined,
                                                 JStr("Unknown twitch_auth action"), Undefined))

handle(cls, message) ==
    CASE cls = "HelloHandler" -> HelloHandler_handle(message)
      [] cls = "PingHandler" -> PingHandler_handle(message)
      [] cls = "ToggleStreamHandler" -> ToggleStreamHandler_handle(message)
      [] cls = "TwitchHandler" -> TwitchHandler_handle(message)
      [] cls = "TwitchAuthHandler" -> TwitchAuthHandler_handle(message)

(***************************************************************************)
(* MessageHandlerRegistry.  A dispatch returns res, what the caller gets,  *)
(* and invoked, the positions of the handlers whose handle was called.     *)
(***************************************************************************)
register(handler) == Append(handlers, handler)

\* The scan keeps going after a match: the last registered match is the one invoked.
RECURSIVE ScanHandlers_lastWins(_, _)
ScanHandlers_lastWins(message, i) ==
    IF i > Len(handlers)
    THEN [res |-> Value(createErrorResponse(JStr("Unknown event type"),
                                            Prop(message, "eventType"), Undefined)),
          invoked |-> << >>]
    ELSE LET rest == ScanHandlers_lastWins(message, i + 1)
         IN IF canHandle(handlers[i], message) /\ rest.invoked = << >>
            THEN [res |-> handle(handlers[i], message), invoked |-> <<i>>]
            ELSE rest

RECURSIVE ScanHandlers(_, _)
ScanHandlers(message, i) ==
    IF i > Len(handlers)
    THEN [res |-> Value(createErrorResponse(JStr("Unknown event type"),
                                            Prop(message, "eventType"), Undefined)),
          invoked |-> << >>]
    ELSE IF canHandle(handlers[i], message)
         THEN [res |-> handle(handlers[i], message), invoked |-> <<i>>]
         ELSE ScanHandlers(message, i + 1)

\* message.eventType of a null message throws before the scan starts.
processMessage(message) ==
    IF ~CanRead(message)
    THEN [res |-> Thrown("TypeError"), invoked |-> << >>]
    ELSE ScanHandlers(message, 1)

\* try { JSON.parse; processMessage } catch { createErrorResponse }: the catch sees
\* what is thrown while the try block runs, not a promise that rejects later.
processRawMessage(rawMessage) ==
    IF ParseThrows(rawMessage)
    THEN [res |-> Value(createErrorResponse(JStr("Invalid JSON format"), Undefined,
                                            RawStr(rawMessage))),
          invoked |-> << >>]
    ELSE LET r == processMessage(JSONparse(rawMessage))
         IN IF r.res.s = "thrown"
            THEN [res |-> Value(createErrorResponse(JStr("Invalid JSON format"), Undefined,
                                                    RawStr(rawMessage))),
                  invoked |-> r.invoked]
            ELSE r

(***************************************************************************)
(* WebSocketManager.  connections is a JavaScript Set: its entries are     *)
(* kept in insertion order, delete empties the entry in place, and a       *)
(* for-of over the Set walks the entry list by position, skipping the      *)
(* emptied entries (ECMAScript, Set.prototype.delete and %SetIterator%).   *)
(* Outside an iteration the emptied entries are not observable, so the     *)
(* variable holds the compacted list.                                      *)
(***************************************************************************)
Empty == 0

Range(seq) == {seq[i] : i \in DOMAIN seq}

Live == Range(connections) \ {Empty}

\* Array.prototype.push: the socket is appended whether or not it is there already.
SetAdd_push(data, ws) == Append(data, ws)

\* Set.prototype.add
SetAdd(data, ws) == IF ws \in Range(data) THEN data ELSE Append(data, ws)

\* Array.prototype.splice: the later entries move one position down.
SetDelete_splice(data, ws) == SelectSeq(data, LAMBDA x : x # ws)

\* Set.prototype.delete
SetDelete(data, ws) == [j \in DOMAIN data |-> IF data[j] = ws THEN Empty ELSE data[j]]

Compact(data) == SelectSeq(data, LAMBDA x : x # Empty)

addConnection(ws) == SetAdd(connections, ws)

\* splice(indexOf(ws), 1): an index of -1 removes the last entry.
removeConnection_spliceIndexOf(ws) ==
    IF ws \in Range(connections)
    THEN Compact(SetDelete(connections, ws))
    ELSE SubSeq(connections, 1, Len(connections) - 1)

removeConnection(ws) == Compact(SetDelete(connections, ws))

getConnectionCount == Len(connections)

\* ws.send(text) on socket ws: the frame is appended to what the socket carries.
Deliver(out, ws, text) == [out EXCEPT ![ws] = Append(@, text)]

\* The loop without its else branch: a socket found not open stays in the Set.
RECURSIVE BroadcastLoop_keepsClosed(_, _, _, _, _)
BroadcastLoop_keepsClosed(data, i, messageJson, raises, out) ==
    IF i > Len(data)
    THEN [connections |-> Compact(data), sent |-> out]
    ELSE LET ws == data[i]
         IN IF ws = Empty
            THEN BroadcastLoop_keepsClosed(data, i + 1, messageJson, raises, out)
            ELSE IF readyState[ws] = "OPEN"
                 THEN IF ws \in raises
                      THEN BroadcastLoop_keepsClosed(SetDelete(data, ws), i + 1, messageJson,
                                                     raises, out)
                      ELSE BroadcastLoop_keepsClosed(data, i + 1, messageJson, raises,
                                                     Deliver(out, ws, messageJson))
                 ELSE BroadcastLoop_keepsClosed(data, i + 1, messageJson, raises, out)

\* The for-of loop of broadcast, from entry i on.  raises is the set of sockets on
\* which ws.send throws during this call.
RECURSIVE BroadcastLoop(_, _, _, _, _)
BroadcastLoop(data, i, messageJson, raises, out) ==
    IF i > Len(data)
    THEN [connections |-> Compact(data), sent |-> out]
    ELSE LET ws == data[i]
         IN IF ws = Empty
            THEN BroadcastLoop(data, i + 1, messageJson, raises, out)
            ELSE IF readyState[ws] = "OPEN"
                 THEN IF ws \in raises
                      THEN BroadcastLoop(SetDelete(data, ws), i + 1, messageJson, raises, out)
                      ELSE BroadcastLoop(data, i + 1, messageJson, raises,
                                         Deliver(out, ws, messageJson))
                 ELSE BroadcastLoop(SetDelete(data, ws), i + 1, messageJson, raises, out)

broadcast(message, raises) ==
    BroadcastLoop(connections, 1, JSONstringify(message), raises, sent)

\* The message goes to every socket of the live set instead of the one given.
sendToClient_toAll(ws, message, raises) ==
    BroadcastLoop(connections, 1, JSONstringify(message), raises, sent)

sendToClient(ws, message, raises) ==
    IF readyState[ws] = "OPEN"
    THEN IF ws \in raises
         THEN [connections |-> removeConnection(ws), sent |-> sent]
         ELSE [connections |-> connections, sent |-> Deliver(sent, ws, JSONstringify(message))]
    ELSE [connections |-> removeConnection(ws), sent |-> sent]

\* EventService.broadcastObsState in its place: the state goes to the whole of data.
sendInitialObsState_broadcasts(data, streaming, ws, raises) ==
    BroadcastLoop(data, 1, JSONstringify(createObsStateResponse(streaming)), raises, sent)

\* EventService.sendInitialObsState(streaming, ws), with data the live set it finds:
\* wsManager.sendToClient(ws, createObsStateResponse(streaming)).
sendInitialObsState(data, streaming, ws, raises) ==
    IF readyState[ws] = "OPEN" /\ ws \notin raises
    THEN [connections |-> data,
          sent |-> Deliver(sent, ws, JSONstringify(createObsStateResponse(streaming)))]
    ELSE [connections |-> Compact(SetDelete(data, ws)), sent |-> sent]

(***************************************************************************)
(* The text frames a client may send.                                      *)
(***************************************************************************)
UserMessages == {"Hello from client!", ""}

RequestBody(userMessage) ==
    JObj([userMessage |-> JStr(userMessage), timestamp |-> JStr("2024-12-31T23:59:59.000Z")])

Request(eventType, eventBody) == JObj([eventType |-> JStr(eventType), eventBody |-> eventBody])

WellFormedDocs ==
    {Request(et, RequestBody(m)) : et \in {"hello", "ping"}, m \in UserMessages}
    \cup {Request("toggle-stream", JObj([timestamp |-> JStr("2024-12-31T23:59:59.000Z")])),
          Request("twitch", JObj([action |-> JStr("dance")])),
          Request("twitch_auth", JObj([action |-> JStr("dance")])),
          Request("nonexistent", JObj(<< >>))}

IllFormedDocs ==
    {JNull, JNumber, JStr("hello"), JArray, JObj(<< >>),
     JObj([eventType |-> JStr("hello")]),
     JObj([eventType |-> JStr("ping")]),
     JObj([eventType |-> JStr("twitch")]),
     JObj([eventType |-> JStr("twitch_auth"), eventBody |-> JNull]),
     JObj([eventType |-> JStr("nonexistent")]),
     JObj([eventBody |-> RequestBody("")]),
     JObj([eventType |-> JNumber, eventBody |-> RequestBody("")]),
     Request("ping", JStr("body"))}

RawTexts ==
    {Garbage, Padded(Garbage)}
    \cup {Text(d) : d \in WellFormedDocs \cup IllFormedDocs}
    \cup {Padded(Text(Request("hello", RequestBody("")))), Padded(Text(JNumber))}

\* The frames the clients of the server send.
ClientFrames ==
    {Garbage,
     Text(Request("hello", RequestBody("Hello from client!"))),
     Padded(Text(Request("ping", RequestBody("")))),
     Text(Request("toggle-stream", JObj([timestamp |-> JStr("2024-12-31T23:59:59.000Z")]))),
     Text(JObj([eventType |-> JStr("twitch")])),
     Text(Request("twitch", JObj([action |-> JStr("dance")]))),
     Text(Request("twitch_auth", JObj([action |-> JStr("dance")])))}

\* The text spells an object with a string eventType and an object eventBody.
WellFormed(txt) ==
    /\ txt.ok
    /\ txt.doc.t = "object"
    /\ Prop(txt.doc, "eventType").t = "string"
    /\ Prop(txt.doc, "eventBody").t = "object"

(***************************************************************************)
(* The Twitch services and the process, as their constructors leave them.  *)
(***************************************************************************)
\* TwitchAuthService.authState: after logout, and after a code exchange at clock n.
LoggedOut == JObj([isAuthenticated |-> JBool(FALSE)])
LoggedIn(n) ==
    JObj([isAuthenticated |-> JBool(TRUE), username |-> JStr("streamer"),
          accessToken |-> JStr("token"), channel |-> JStr("streamer"),
          expiresAt |-> JDate(n + 1)])

\* No callback: the null a callback field holds.
NoCallback == 0

\* A tmi.js client as tmi.Client(...) returns it, with the event handlers
\* setupEventHandlers attaches: not connected, in no channel, nothing requested.
NewClient == [status |-> "idle", joined |-> FALSE, requests |-> 0]

\* new TwitchManager(): client is the position in tmi of the client it holds;
\* chatCallback is NoCallback or the socket the callback's closure sends to; the
\* other callbacks only log, so the field tells whether one is set.
NewTwitchManager ==
    [client |-> 1, _isConnected |-> FALSE, _isChatEnabled |-> FALSE,
     chatCallback |-> NoCallback, subscriptionCallback |-> FALSE, bitsCallback |-> FALSE,
     followCallback |-> FALSE, raidCallback |-> FALSE, hostCallback |-> FALSE,
     targetChannel |-> ""]

\* The process before any signal: no grace timer, the listener listening.
Running ==
    [signals |-> 0, timers |-> 0, closing |-> FALSE, log |-> << >>, exitCode |-> "none"]

(***************************************************************************)
(* Initial values shared by the specifications.                            *)
(***************************************************************************)
InitCommon ==
    /\ clock = 0
    /\ connections = << >>
    /\ readyState = [c \in Sockets |-> "OPEN"]
    /\ sent = [c \in Sockets |-> << >>]
    /\ accepted = {}
    /\ calls = << >>
    /\ pushes = 0
    /\ twitchManager = NewTwitchManager
    /\ tmi = <<NewClient>>
    /\ authState = LoggedOut
    /\ proc = Running
    /\ last = [op |-> "init"]

\* The clock advances.
Tick ==
    /\ clock < MaxClock
    /\ clock' = clock + 1
    /\ UNCHANGED <<handlers, connections, readyState, sent, obsEnabled, obsConnected,
                   obsStreaming, accepted, calls, pushes, last,
                   twitchManager, tmi, authState, proc>>

(***************************************************************************)
(* SpecRegistry: the MessageHandlerRegistry on its own.  Any handlers are  *)
(* registered in any order, and any text is dispatched; the OBS service is *)
(* in any of its states.                                                   *)
(***************************************************************************)
InitRegistry ==
    /\ InitCommon
    /\ obsStreaming = FALSE
    /\ handlers = << >>
    /\ obsEnabled \in BOOLEAN
    /\ obsConnected \in {b \in BOOLEAN : b => obsEnabled}

Register(cls) ==
    /\ Len(handlers) < MaxHandlers
    /\ handlers' = register(cls)
    /\ last' = [op |-> "register", handler |-> cls]
    /\ UNCHANGED <<clock, connections, readyState, sent, obsEnabled, obsConnected,
                   obsStreaming, accepted, calls, pushes,
                   twitchManager, tmi, authState, proc>>

Dispatch(rawMessage) ==
    LET r == processRawMessage(rawMessage)
        repeat == last.op = "dispatch" /\ last.raw = rawMessage
    IN /\ last' = [op |-> "dispatch", raw |-> rawMessage,
                   res |-> r.res, invoked |-> r.invoked,
                   repeat |-> repeat, previous |-> IF repeat THEN last.invoked ELSE << >>]
       /\ UNCHANGED <<clock, handlers, connections, readyState, sent, obsEnabled,
                      obsConnected, obsStreaming, accepted, calls, pushes,
                      twitchManager, tmi, authState, proc>>

NextRegistry ==
    \/ \E cls \in HandlerClasses : Register(cls)
    \/ \E rawMessage \in RawTexts : Dispatch(rawMessage)
    \/ Tick

SpecRegistry == InitRegistry /\ [][NextRegistry]_vars

(***************************************************************************)
(* SpecManager: the WebSocketManager on its own.  Its methods are called   *)
(* in any order with any socket, sockets close at any time, and ws.send    *)
(* throws on any sockets the environment picks.                            *)
(***************************************************************************)
InitManager ==
    /\ InitCommon
    /\ obsStreaming = FALSE
    /\ handlers = << >>
    /\ obsEnabled = FALSE
    /\ obsConnected = FALSE

MgrAddConnection(ws) ==
    /\ connections' = addConnection(ws)
    /\ last' = [op |-> "addConnection", ws |-> ws, before |-> connections]
    /\ UNCHANGED <<clock, handlers, readyState, sent, obsEnabled, obsConnected,
                   obsStreaming, accepted, calls, pushes,
                   twitchManager, tmi, authState, proc>>

MgrRemoveConnection(ws) ==
    /\ connections' = removeConnection(ws)
    /\ last' = [op |-> "removeConnection", ws |-> ws, before |-> connections,
                again |-> (last.op = "removeConnection" /\ last.ws = ws)]
    /\ UNCHANGED <<clock, handlers, readyState, sent, obsEnabled, obsConnected,
                   obsStreaming, accepted, calls, pushes,
                   twitchManager, tmi, authState, proc>>

MgrBroadcast(message, raises) ==
    /\ pushes < MaxBroadcasts
    /\ LET r == broadcast(message, raises)
       IN /\ connections' = r.connections
          /\ sent' = r.sent
    /\ pushes' = pushes + 1
    /\ last' = [op |-> "broadcast", text |-> JSONstringify(message), before |-> connections,
                sentBefore |-> sent, open |-> {c \in Sockets : readyState[c] = "OPEN"},
                raises |-> raises]
    /\ UNCHANGED <<clock, handlers, readyState, obsEnabled, obsConnected,
                   obsStreaming, accepted, calls,
                   twitchManager, tmi, authState, proc>>

MgrSendToClient(ws, message, raises) ==
    /\ pushes < MaxBroadcasts
    /\ LET r == sendToClient(ws, message, raises)
       IN /\ connections' = r.connections
          /\ sent' = r.sent
    /\ pushes' = pushes + 1
    /\ last' = [op |-> "sendToClient", ws |-> ws, text |-> JSONstringify(message),
                before |-> connections, sentBefore |-> sent,
                open |-> {c \in Sockets : readyState[c] = "OPEN"}, raises |-> raises]
    /\ UNCHANGED <<clock, handlers, readyState, obsEnabled, obsConnected,
                   obsStreaming, accepted, calls,
                   twitchManager, tmi, authState, proc>>

\* The transport of a socket closes.
TransportClose(ws) ==
    /\ readyState[ws] = "OPEN"
    /\ readyState' = [readyState EXCEPT ![ws] = "CLOSED"]
    /\ UNCHANGED <<clock, handlers, connections, sent, obsEnabled, obsConnected,
                   obsStreaming, accepted, calls, pushes, last,
                   twitchManager, tmi, authState, proc>>

NextManager ==
    \/ \E ws \in Sockets : MgrAddConnection(ws)
    \/ \E ws \in Sockets : MgrRemoveConnection(ws)
    \/ \E streaming \in BOOLEAN, raises \in SUBSET Live :
           MgrBroadcast(createObsStateResponse(streaming), raises)
    \/ \E ws \in Sockets : \E raises \in SUBSET {ws} :
           MgrSendToClient(ws, createObsStateResponse(FALSE), raises)
    \/ \E ws \in Sockets : TransportClose(ws)

SpecManager == InitManager /\ [][NextManager]_vars

(***************************************************************************)
(* Properties of the registry (SpecRegistry).                              *)
(***************************************************************************)
\* The envelope a dispatch returned synchronously, and its body.
Returned == IF last.res.s = "value" THEN last.res.v ELSE Undefined
ReturnedBody == Prop(Returned, "eventBody")

\* The positions of the registered handlers that accept the dispatched text.
Matching ==
    IF last.raw.ok /\ CanRead(last.raw.doc)
    THEN {i \in DOMAIN handlers : canHandle(handlers[i], last.raw.doc)}
    ELSE {}

Min(S) == CHOOSE x \in S : \A y \in S : x <= y

\* C3: a raw text that is not an object with a string eventType and an object
\* eventBody is answered with the error envelope 'Invalid JSON format' whose
\* originalMessage is the raw text, and no handler's handle is invoked.
C3_IllFormedYieldsInvalidJSON ==
    (last.op = "dispatch" /\ ~WellFormed(last.raw)) =>
        /\ Prop(Returned, "eventType") = JStr("error")
        /\ Prop(ReturnedBody, "message") = JStr("Invalid JSON format")
        /\ Prop(ReturnedBody, "originalMessage") = RawStr(last.raw)
        /\ last.invoked = << >>

\* C4: a well-formed envelope whose eventType no registered handler accepts is
\* answered with an error envelope that names the request's eventType, carries
\* no originalMessage and no other data, and no handler's handle is invoked.
C4_UnknownTypeYieldsError ==
    (last.op = "dispatch" /\ WellFormed(last.raw) /\ Matching = {}) =>
        /\ Prop(Returned, "eventType") = JStr("error")
        /\ Prop(ReturnedBody, "eventType") = Prop(last.raw.doc, "eventType")
        /\ Prop(ReturnedBody, "originalMessage") = Undefined
        /\ DOMAIN StringifyValue(ReturnedBody).v = {"message", "eventType", "timestamp"}
        /\ last.invoked = << >>

C4_Witness ==
    /\ last.op = "dispatch" /\ WellFormed(last.raw) /\ Matching = {}
    /\ Len(handlers) = MaxHandlers

\* C5: a dispatch invokes handle on the earliest registered handler that accepts
\* the envelope, once, and on no other handler; dispatching the same text again
\* selects the same handler.
C5_FirstRegisteredWins ==
    last.op = "dispatch" =>
        /\ Matching # {} => last.invoked = <<Min(Matching)>>
        /\ Matching = {} => last.invoked = << >>
        /\ last.repeat => last.previous = last.invoked

C5_Witness ==
    /\ last.op = "dispatch" /\ last.repeat
    /\ Cardinality(Matching) >= 2

\* C7: with the ping handler registered, a well-formed ping request with body B
\* is answered with a pong-response whose originalBody is B and whose message is
\* 'pong'.
C7_PingEchoesBody ==
    (/\ last.op = "dispatch" /\ WellFormed(last.raw)
     /\ Prop(last.raw.doc, "eventType") = JStr("ping")
     /\ "PingHandler" \in Range(handlers)) =>
        /\ Prop(Returned, "eventType") = JStr("pong-response")
        /\ Prop(ReturnedBody, "originalBody") = Prop(last.raw.doc, "eventBody")
        /\ Prop(ReturnedBody, "message") = JStr("pong")

C7_Witness ==
    /\ last.op = "dispatch" /\ WellFormed(last.raw)
    /\ Prop(last.raw.doc, "eventType") = JStr("ping")
    /\ "PingHandler" \in Range(handlers)
    /\ Prop(Prop(ReturnedBody, "originalBody"), "userMessage") = JStr("Hello from client!")

(***************************************************************************)
(* Properties of the WebSocketManager (SpecManager).                       *)
(***************************************************************************)
\* The sockets of the live set when the last call started, and those among them
\* that were open, and those that were open and on which send did not throw.
LiveBefore == Range(last.before)
OpenBefore == LiveBefore \cap last.open
SendOk == OpenBefore \ last.raises

GotOneCopy(c) == sent[c] = Append(last.sentBefore[c], last.text)
GotNothing(c) == sent[c] = last.sentBefore[c]

\* C8 as stated: after broadcast(E) every socket of the live set that reported
\* open has received one copy of E, every socket that reported not open has
\* received nothing and is out of the live set, and the count is the number of
\* sockets that were open.
C8_BroadcastReachesEveryOpen ==
    last.op = "broadcast" =>
        /\ \A c \in OpenBefore : GotOneCopy(c)
        /\ \A c \in LiveBefore \ OpenBefore : GotNothing(c) /\ c \notin Live
        /\ getConnectionCount = Cardinality(OpenBefore)

\* C8 as amended: after broadcast(E) every socket of the live set that reported
\* open and on which send did not throw has received one copy of E; every socket
\* that reported not open, or on which send threw, has received nothing and is
\* out of the live set; the count is the number of sockets the copy was sent to.
C8_BroadcastReachesEverySendable ==
    last.op = "broadcast" =>
        /\ \A c \in SendOk : GotOneCopy(c)
        /\ \A c \in LiveBefore \ SendOk : GotNothing(c) /\ c \notin Live
        /\ \A c \in Sockets \ LiveBefore : GotNothing(c)
        /\ getConnectionCount = Cardinality(SendOk)

C8_Witness ==
    /\ last.op = "broadcast"
    /\ SendOk # {}
    /\ LiveBefore \ OpenBefore # {}

\* C9: within one broadcast a socket on which send throws, or which is found not
\* open, is removed from the live set, and every other socket of the live set
\* that is open still gets the message once, wherever the failing socket stands
\* in the iteration order.
C9_FailureIsIsolated ==
    last.op = "broadcast" =>
        \A a \in LiveBefore \ SendOk :
            /\ a \notin Live
            /\ \A b \in SendOk : GotOneCopy(b) /\ b \in Live

\* The failing socket is visited before a socket that gets the message.
C9_Witness ==
    /\ last.op = "broadcast"
    /\ Len(last.before) >= 2
    /\ last.before[1] \in LiveBefore \ SendOk
    /\ last.before[2] \in SendOk

\* C10: removeConnection of a socket that is not in the live set (never added,
\* already removed, or removed by the call just before) leaves the live set and
\* the count as they were.
C10_RemoveIsIdempotent ==
    last.op = "removeConnection" =>
        /\ last.ws \notin LiveBefore =>
               connections = last.before /\ getConnectionCount = Len(last.before)
        /\ last.again => connections = last.before

C10_Witness ==
    /\ last.op = "removeConnection" /\ last.again
    /\ getConnectionCount > 0

(***************************************************************************)
(* Spec: the server (index.ts).  The five handlers are registered at       *)
(* start-up; sockets are accepted, receive text frames, close and fail;    *)
(* OBS answers or refuses the calls made to it, drops its connection and   *)
(* reports stream changes.                                                 *)
(*                                                                         *)
(* A callback runs without interruption up to an await on the OBS client.  *)
(* An await on a value or on a settled promise resumes in a microtask,     *)
(* before any other event is handled, so it is part of the same step.      *)
(* calls holds the callbacks that are suspended, in the order they         *)
(* started; calls[i].pc is the OBS request callback i awaits: "connect",   *)
(* "GetStreamStatus", "StartStream" or "StopStream".  A message callback   *)
(* that ends is recorded in last, with pc "done" if it returned and        *)
(* "unhandled" if it ended by an error nothing caught.                     *)
(***************************************************************************)
ServerHandlers ==
    <<"HelloHandler", "PingHandler", "ToggleStreamHandler", "TwitchHandler",
      "TwitchAuthHandler">>

Init ==
    /\ InitCommon
    /\ obsStreaming \in BOOLEAN
    /\ handlers = ServerHandlers
    /\ obsEnabled \in BOOLEAN
    /\ obsConnected = FALSE

RemoveAt(seq, i) == SubSeq(seq, 1, i - 1) \o SubSeq(seq, i + 1, Len(seq))

\* ws.send(text) called from a callback: the frame goes out if the socket is open
\* and send does not throw.
SocketSend(ws, text, throws) ==
    IF readyState[ws] = "OPEN" /\ ~throws THEN Deliver(sent, ws, text) ELSE sent

\* The rest of the message callback once the dispatch has produced res:
\* JSON.stringify(response); ws.send(responseJson).
Respond(call, res, throws) ==
    [call EXCEPT !.pc = IF throws THEN "unhandled" ELSE "done",
                 !.result = res,
                 !.sends = @ + 1,
                 !.frame = JSONstringify(res.v)]

\* The await in the message callback throws: nothing catches it.
Escape(call, res) == [call EXCEPT !.pc = "unhandled", !.result = res]

\* The number of message callbacks of socket ws that started before position i
\* of calls and are still suspended (observation only).
Earlier(ws, i) ==
    Cardinality({j \in 1..(i - 1) : calls[j].op = "message" /\ calls[j].ws = ws})

\* The suspended callback i as it ends.
Ended(i) == [calls[i] EXCEPT !.overtaken = Earlier(calls[i].ws, i)]

\* wss.on('connection')
Accept(ws, throws) ==
    /\ ws \in Conns \ accepted
    /\ accepted' = accepted \cup {ws}
    /\ IF obsEnabled
       THEN /\ ~throws
            /\ connections' = addConnection(ws)
            /\ sent' = sent
            /\ calls' = Append(calls, [op |-> "accept", ws |-> ws,
                                       pc |-> IF obsConnected THEN "GetStreamStatus"
                                                              ELSE "connect"])
       ELSE LET r == sendInitialObsState(addConnection(ws), FALSE, ws,
                                         IF throws THEN {ws} ELSE {})
            IN /\ connections' = r.connections
               /\ sent' = r.sent
               /\ calls' = calls
    /\ UNCHANGED <<clock, handlers, readyState, obsEnabled, obsConnected, obsStreaming,
                   pushes, last,
                   twitchManager, tmi, authState, proc>>

\* A server that takes no frame while a message callback is suspended.
OnMessage_serialized(ws, data, throws) ==
    /\ \A i \in DOMAIN calls : calls[i].op # "message"
    /\ ws \in accepted
    /\ readyState[ws] = "OPEN"
    /\ pushes' = pushes + 1
    /\ LET rawMessage == Trim(data)
           r == processRawMessage(rawMessage)
           call == [op |-> "message", ws |-> ws, data |-> data, raw |-> rawMessage,
                    invoked |-> r.invoked, pc |-> "start", result |-> r.res,
                    sends |-> 0, frame |-> Garbage,
                    overtaken |-> Earlier(ws, Len(calls) + 1)]
       IN CASE r.res.s \in {"value", "fulfilled"} ->
                   /\ last' = Respond(call, r.res, throws)
                   /\ sent' = SocketSend(ws, JSONstringify(r.res.v), throws)
                   /\ calls' = calls
            [] r.res.s = "rejected" ->
                   /\ ~throws
                   /\ last' = Escape(call, r.res)
                   /\ UNCHANGED <<sent, calls>>
            [] r.res.s = "pending" ->
                   /\ ~throws
                   /\ calls' = Append(calls, [call EXCEPT !.pc = r.res.v.v])
                   /\ UNCHANGED <<sent, last>>
    /\ UNCHANGED <<clock, handlers, connections, readyState, obsEnabled, obsConnected,
                   obsStreaming, accepted,
                   twitchManager, tmi, authState, proc>>

\* ws.on('message')
OnMessage(ws, data, throws) ==
    /\ ws \in accepted
    /\ readyState[ws] = "OPEN"
    /\ pushes' = pushes + 1
    /\ LET rawMessage == Trim(data)
           r == processRawMessage(rawMessage)
           call == [op |-> "message", ws |-> ws, data |-> data, raw |-> rawMessage,
                    invoked |-> r.invoked, pc |-> "start", result |-> r.res,
                    sends |-> 0, frame |-> Garbage,
                    overtaken |-> Earlier(ws, Len(calls) + 1)]
       IN CASE r.res.s \in {"value", "fulfilled"} ->
                   /\ last' = Respond(call, r.res, throws)
                   /\ sent' = SocketSend(ws, JSONstringify(r.res.v), throws)
                   /\ calls' = calls
            [] r.res.s = "rejected" ->
                   /\ ~throws
                   /\ last' = Escape(call, r.res)
                   /\ UNCHANGED <<sent, calls>>
            [] r.res.s = "pending" ->
                   /\ ~throws
                   /\ calls' = Append(calls, [call EXCEPT !.pc = r.res.v.v])
                   /\ UNCHANGED <<sent, last>>
    /\ UNCHANGED <<clock, handlers, connections, readyState, obsEnabled, obsConnected,
                   obsStreaming, accepted,
                   twitchManager, tmi, authState, proc>>

\* await this.obs.connect(url, password) settles in OBSService.connect.
ObsConnectSettles(i, ok) ==
    /\ i \in DOMAIN calls
    /\ calls[i].pc = "connect"
    /\ IF ok
       THEN /\ obsConnected' = TRUE
            /\ calls' = [calls EXCEPT ![i].pc = "GetStreamStatus"]
            /\ last' = last
       ELSE /\ obsConnected' = obsConnected
            /\ calls' = RemoveAt(calls, i)
            /\ last' = IF calls[i].op = "accept" THEN last
                       ELSE Escape(Ended(i), Rejected("OBSWebSocketError"))
    /\ UNCHANGED <<clock, handlers, connections, readyState, sent, obsEnabled,
                   obsStreaming, accepted, pushes,
                   twitchManager, tmi, authState, proc>>

\* A toggle that starts the stream whatever OBS reported.
toggleStreaming_alwaysStarts(currentlyStreaming) == "StartStream"

\* OBSService.toggleStreaming, given what isStreaming() returned: the OBS request
\* it issues next.  It returns true after StartStream and false after StopStream.
toggleStreaming(currentlyStreaming) ==
    IF currentlyStreaming THEN "StopStream" ELSE "StartStream"

\* await this.obs.call('GetStreamStatus') settles in OBSService.isStreaming.
ObsStatusSettles(i, ok, throws) ==
    /\ i \in DOMAIN calls
    /\ calls[i].pc = "GetStreamStatus"
    /\ IF calls[i].op = "accept"
       THEN \* sendInitialObsState(streaming, ws), or the catch of the accept task
            LET r == sendInitialObsState(connections, obsStreaming, calls[i].ws,
                                         IF throws THEN {calls[i].ws} ELSE {})
            IN /\ ok \/ ~throws
               /\ calls' = RemoveAt(calls, i)
               /\ connections' = IF ok THEN r.connections ELSE connections
               /\ sent' = IF ok THEN r.sent ELSE sent
               /\ last' = last
       ELSE \* toggleStreaming: stopStreaming or startStreaming, after ensureConnected
            /\ ~throws
            /\ IF ok /\ obsConnected
               THEN /\ calls' = [calls EXCEPT ![i].pc = toggleStreaming(obsStreaming)]
                    /\ last' = last
               ELSE /\ calls' = RemoveAt(calls, i)
                    /\ last' = Escape(Ended(i),
                                      IF ok THEN Rejected("OBSService is not connected")
                                      ELSE Rejected("OBSWebSocketError"))
            /\ UNCHANGED <<connections, sent>>
    /\ UNCHANGED <<clock, handlers, readyState, obsEnabled, obsConnected, obsStreaming,
                   accepted, pushes,
                   twitchManager, tmi, authState, proc>>

\* await this.obs.call('StartStream' / 'StopStream') settles; the handler returns the
\* obs-state response and the message callback sends it.
ObsToggleSettles(i, ok, throws) ==
    /\ i \in DOMAIN calls
    /\ calls[i].pc \in {"StartStream", "StopStream"}
    /\ calls' = RemoveAt(calls, i)
    /\ LET streaming == calls[i].pc = "StartStream"
           res == Fulfilled(createObsStateResponse(streaming))
       IN IF ok
          THEN /\ obsStreaming' = streaming
               /\ last' = Respond(Ended(i), res, throws)
               /\ sent' = SocketSend(calls[i].ws, JSONstringify(res.v), throws)
          ELSE /\ ~throws
               /\ obsStreaming' = obsStreaming
               /\ last' = Escape(Ended(i), Rejected("OBSWebSocketError"))
               /\ sent' = sent
    /\ UNCHANGED <<clock, handlers, connections, readyState, obsEnabled, obsConnected,
                   accepted, pushes,
                   twitchManager, tmi, authState, proc>>

\* obs.on('ConnectionClosed')
ObsConnectionClosed ==
    /\ obsConnected
    /\ obsConnected' = FALSE
    /\ UNCHANGED <<clock, handlers, connections, readyState, sent, obsEnabled,
                   obsStreaming, accepted, calls, pushes, last,
                   twitchManager, tmi, authState, proc>>

\* obs.on('StreamStarting' / 'StreamStarted' / 'StreamStopping' / 'StreamStopped')
ObsStreamEvent(streaming, raises) ==
    /\ obsConnected
    /\ pushes' = pushes + 1
    /\ obsStreaming' = streaming
    /\ LET r == broadcast(createObsStateResponse(streaming), raises)
       IN /\ connections' = r.connections
          /\ sent' = r.sent
    /\ UNCHANGED <<clock, handlers, readyState, obsEnabled, obsConnected, accepted,
                   calls, last,
                   twitchManager, tmi, authState, proc>>

\* The transport of an accepted socket starts closing: it no longer reports open.
TransportClosing(ws) ==
    /\ ws \in accepted
    /\ readyState[ws] = "OPEN"
    /\ readyState' = [readyState EXCEPT ![ws] = "CLOSING"]
    /\ UNCHANGED <<clock, handlers, connections, sent, obsEnabled, obsConnected,
                   obsStreaming, accepted, calls, pushes, last,
                   twitchManager, tmi, authState, proc>>

\* A close handler that only logs: the socket stays in the live set.
OnClose_onlyLogs(ws) ==
    /\ ws \in accepted
    /\ readyState[ws] # "CLOSED"
    /\ readyState' = [readyState EXCEPT ![ws] = "CLOSED"]
    /\ UNCHANGED <<clock, handlers, connections, sent, obsEnabled, obsConnected,
                   obsStreaming, accepted, calls, pushes, last,
                   twitchManager, tmi, authState, proc>>

\* ws.on('close')
OnClose(ws) ==
    /\ ws \in accepted
    /\ readyState[ws] # "CLOSED"
    /\ readyState' = [readyState EXCEPT ![ws] = "CLOSED"]
    /\ connections' = removeConnection(ws)
    /\ UNCHANGED <<clock, handlers, sent, obsEnabled, obsConnected, obsStreaming,
                   accepted, calls, pushes, last,
                   twitchManager, tmi, authState, proc>>

\* ws.on('error'): the socket is closing when the event is emitted.
OnError(ws) ==
    /\ ws \in accepted
    /\ readyState[ws] # "CLOSED"
    /\ readyState' = [readyState EXCEPT ![ws] = "CLOSING"]
    /\ connections' = removeConnection(ws)
    /\ UNCHANGED <<clock, handlers, sent, obsEnabled, obsConnected, obsStreaming,
                   accepted, calls, pushes, last,
                   twitchManager, tmi, authState, proc>>

Next ==
    \/ \E ws \in Conns, throws \in BOOLEAN : Accept(ws, throws)
    \/ \E ws \in Conns, data \in ClientFrames, throws \in BOOLEAN :
           pushes < MaxFrames /\ OnMessage(ws, data, throws)
    \/ \E i \in DOMAIN calls, ok \in BOOLEAN : ObsConnectSettles(i, ok)
    \/ \E i \in DOMAIN calls, ok \in BOOLEAN, throws \in BOOLEAN :
           ObsStatusSettles(i, ok, throws)
    \/ \E i \in DOMAIN calls, ok \in BOOLEAN, throws \in BOOLEAN :
           ObsToggleSettles(i, ok, throws)
    \/ ObsConnectionClosed
    \/ \E streaming \in BOOLEAN, raises \in SUBSET Live :
           pushes < MaxFrames /\ ObsStreamEvent(streaming, raises)
    \/ \E ws \in Conns : TransportClosing(ws)
    \/ \E ws \in Conns : OnClose(ws)
    \/ \E ws \in Conns : OnError(ws)
    \/ Tick

Spec == Init /\ [][Next]_vars

(***************************************************************************)
(* SpecSync: the synchronous server entry.  It registers the hello and     *)
(* ping handlers only, keeps no connection manager, and sends what         *)
(* processRawMessage returns without awaiting it.                          *)
(***************************************************************************)
SyncHandlers == <<"HelloHandler", "PingHandler">>

InitSync ==
    /\ InitCommon
    /\ obsStreaming = FALSE
    /\ handlers = SyncHandlers
    /\ obsEnabled = FALSE
    /\ obsConnected = FALSE

\* wss.on('connection')
SyncAccept(ws) ==
    /\ ws \in Conns \ accepted
    /\ accepted' = accepted \cup {ws}
    /\ UNCHANGED <<clock, handlers, connections, readyState, sent, obsEnabled,
                   obsConnected, obsStreaming, calls, pushes, last,
                   twitchManager, tmi, authState, proc>>

\* ws.on('message'): response is the value processRawMessage returned, or the
\* promise object itself when the handler is async.
SyncOnMessage(ws, data) ==
    /\ ws \in accepted
    /\ readyState[ws] = "OPEN"
    /\ pushes < MaxFrames
    /\ pushes' = pushes + 1
    /\ LET rawMessage == Trim(data)
           r == processRawMessage(rawMessage)
           response == IF r.res.s = "value" THEN r.res.v ELSE JPromise
           responseJson == JSONstringify(response)
       IN /\ sent' = SocketSend(ws, responseJson, FALSE)
          /\ last' = [op |-> "message", ws |-> ws, data |-> data, raw |-> rawMessage,
                      invoked |-> r.invoked, pc |-> "done", result |-> r.res,
                      sends |-> 1, frame |-> responseJson]
    /\ UNCHANGED <<clock, handlers, connections, readyState, obsEnabled, obsConnected,
                   obsStreaming, accepted, calls,
                   twitchManager, tmi, authState, proc>>

\* ws.on('close')
SyncOnClose(ws) ==
    /\ ws \in accepted
    /\ readyState[ws] # "CLOSED"
    /\ readyState' = [readyState EXCEPT ![ws] = "CLOSED"]
    /\ UNCHANGED <<clock, handlers, connections, sent, obsEnabled, obsConnected,
                   obsStreaming, accepted, calls, pushes, last,
                   twitchManager, tmi, authState, proc>>

NextSync ==
    \/ \E ws \in Conns : SyncAccept(ws)
    \/ \E ws \in Conns, data \in RawTexts : SyncOnMessage(ws, data)
    \/ \E ws \in Conns : SyncOnClose(ws)
    \/ Tick

SpecSync == InitSync /\ [][NextSync]_vars

(***************************************************************************)
(* Properties of the server (Spec).                                        *)
(***************************************************************************)
\* C1: a message callback that has ended has sent exactly one response envelope
\* on the connection the frame arrived on, whatever the frame was and whether or
\* not the handler's external call failed.
C1_OneResponsePerFrame ==
    last.op = "message" =>
        /\ last.sends = 1
        /\ last.frame.ok
        /\ Prop(last.frame.doc, "eventType").t = "string"

\* C2: whatever the selected handler does, dispatch hands the message callback a
\* response envelope; when the handler raised or its promise rejected the
\* envelope is an 'error' envelope, and no rejection reaches the callback.
C2_HandlerFailureYieldsErrorEnvelope ==
    (last.op = "message" /\ last.invoked # << >>) =>
        /\ last.result.s \in {"value", "fulfilled"}
        /\ last.pc = "unhandled" => Prop(last.result.v, "eventType") = JStr("error")

(***************************************************************************)
(* Properties of the synchronous server entry (SpecSync).                  *)
(***************************************************************************)
\* C6: the frame sent back for a well-formed hello request is a hello-response
\* envelope whose eventBody.message is 'world' and which carries a timestamp.
C6_HelloAnsweredWithWorld ==
    (/\ last.op = "message" /\ WellFormed(last.raw)
     /\ Prop(last.raw.doc, "eventType") = JStr("hello")) =>
        /\ last.frame.ok
        /\ Prop(last.frame.doc, "eventType") = JStr("hello-response")
        /\ Prop(Prop(last.frame.doc, "eventBody"), "message") = JStr("world")
        /\ Prop(Prop(last.frame.doc, "eventBody"), "timestamp").t = "string"

(***************************************************************************)
(* Further properties of the WebSocketManager (SpecManager).               *)
(***************************************************************************)
\* C11: addConnection of a socket that is already in the live set leaves the
\* live set and the count as they were; addConnection of a socket that is not in
\* it adds that socket and raises the count by exactly one.
C11_AddIsIdempotentByIdentity ==
    last.op = "addConnection" =>
        /\ last.ws \in LiveBefore =>
               connections = last.before /\ getConnectionCount = Len(last.before)
        /\ last.ws \notin LiveBefore =>
               /\ Live = LiveBefore \cup {last.ws}
               /\ getConnectionCount = Len(last.before) + 1
        /\ getConnectionCount = Cardinality(Live)

C11_Witness ==
    /\ last.op = "addConnection"
    /\ last.ws \in LiveBefore
    /\ getConnectionCount = MaxConn

\* C12: sendToClient(c, m) sends exactly one frame to c and leaves the live set
\* alone when c is open and send does not throw; otherwise it sends nothing and
\* c is out of the live set; no other socket gets a frame, joins or leaves.
C12_SendToClientTouchesOnlyTarget ==
    last.op = "sendToClient" =>
        /\ (last.ws \in last.open \ last.raises) =>
               GotOneCopy(last.ws) /\ connections = last.before
        /\ (last.ws \notin last.open \ last.raises) =>
               GotNothing(last.ws) /\ last.ws \notin Live
        /\ \A c \in Sockets \ {last.ws} :
               GotNothing(c) /\ (c \in Live <=> c \in LiveBefore)

\* Another open socket is in the live set while the target is sent to or evicted.
C12_Witness ==
    /\ last.op = "sendToClient"
    /\ last.ws \in LiveBefore
    /\ last.ws \notin Live
    /\ \E c \in LiveBefore \ {last.ws} : c \in last.open

(***************************************************************************)
(* Further properties of the server (Spec).                                *)
(***************************************************************************)
\* The step leaves every socket but ws as it was: same frames, same membership.
OthersUntouched(ws) ==
    \A c \in Conns \ {ws} : sent'[c] = sent[c] /\ (c \in Live' <=> c \in Live)

InitialFrame(streaming) == JSONstringify(createObsStateResponse(streaming))

\* C13: the step that accepts a socket registers it in the live set, and the
\* initial obs-state of that accept (sent in the same step when OBS integration
\* is off, by the accept's task once OBS has answered when it is on) goes to
\* the new socket only: no other socket gets a frame or changes membership.
\* The new socket is in the live set after the accept unless the initial send
\* threw and sendToClient evicted it.
C13_InitialStateToNewConnectionOnly ==
    [][/\ \A ws \in accepted' \ accepted :
              /\ OthersUntouched(ws)
              /\ IF obsEnabled
                 THEN ws \in Live' /\ sent'[ws] = sent[ws]
                 ELSE \/ ws \in Live' /\ sent'[ws] = Append(sent[ws], InitialFrame(FALSE))
                      \/ ws \notin Live' /\ sent'[ws] = sent[ws]
       /\ \A i \in DOMAIN calls :
              (calls[i].op = "accept" /\ calls' = RemoveAt(calls, i)) =>
                  /\ OthersUntouched(calls[i].ws)
                  /\ \/ sent'[calls[i].ws] = sent[calls[i].ws]
                     \/ sent'[calls[i].ws] =
                            Append(sent[calls[i].ws], InitialFrame(obsStreaming))
      ]_vars

\* Two sockets are live, no frame or stream event has been handled, and each
\* socket carries its own initial state and nothing else.
C13_Witness ==
    /\ Cardinality(Live) = 2
    /\ pushes = 0
    /\ \A c \in Live : Len(sent[c]) = 1

\* C14: once a socket has had its close or error event it is out of the live
\* set, and a message callback that was awaiting its handler when the event
\* fired ends without calling send on that socket.
C14_NoResponseAfterClose ==
    [][/\ \A ws \in Conns : readyState'[ws] = "CLOSED" => ws \notin Live'
       /\ \A i \in DOMAIN calls :
              (/\ calls[i].op = "message"
               /\ calls' = RemoveAt(calls, i)
               /\ readyState[calls[i].ws] = "CLOSED") =>
                  last'.sends = 0
      ]_vars

\* C15: in every state the live set holds only accepted sockets whose close
\* event has not fired, without repetition, and getConnectionCount is its size;
\* a socket joins the live set only in the step that accepts it, so a socket
\* that was removed (closed, errored or evicted by a send) never comes back.
C15_LiveSetOnlyAcceptedNeverReadded ==
    /\ [](/\ Live \subseteq accepted
          /\ \A c \in Live : readyState[c] # "CLOSED"
          /\ Empty \notin Range(connections)
          /\ getConnectionCount = Cardinality(Live))
    /\ [][/\ accepted \subseteq accepted'
          /\ \A c \in Live' \ Live : c \notin accepted
         ]_vars

\* One socket has been evicted by a failed send while still open, another has
\* been removed by its close event, and neither is in the live set.
C15_Witness ==
    /\ \E c \in accepted : c \notin Live /\ readyState[c] = "OPEN"
    /\ \E c \in accepted : c \notin Live /\ readyState[c] = "CLOSED"

(***************************************************************************)
(* Properties of the handlers (SpecRegistry).                              *)
(***************************************************************************)
\* C16: whenever dispatch invokes a handler, the handler neither throws nor
\* returns a promise that rejects; in particular an accepted envelope without
\* an eventBody is answered with a response envelope.
C16_HandlersNeverReject ==
    (last.op = "dispatch" /\ last.invoked # << >>) =>
        /\ last.res.s \notin {"thrown", "rejected"}
        /\ (last.raw.ok /\ ~WellFormed(last.raw)) =>
               /\ last.res.s \in {"value", "fulfilled"}
               /\ Prop(last.res.v, "eventType").t = "string"

(***************************************************************************)
(* Properties of the toggle-stream request (Spec).                         *)
(***************************************************************************)
\* C17: with OBS integration on and OBS answering, a toggle-stream request
\* issues one OBS request after the status report, StopStream if OBS reported
\* streaming and StartStream if it reported not streaming, issues no other one
\* afterwards, and when that request succeeds the obs-state response carries
\* the negation of the reported state and is sent once.
C17_ToggleNegatesReportedState ==
    [][\A i \in DOMAIN calls :
           calls[i].op = "message" =>
               /\ \A request \in {"StartStream", "StopStream"} :
                      (/\ calls[i].pc = "GetStreamStatus"
                       /\ calls' = [calls EXCEPT ![i].pc = request]) =>
                          (request = "StartStream" <=> ~obsStreaming)
               /\ (calls[i].pc \in {"StartStream", "StopStream"} /\ Len(calls') = Len(calls)) =>
                      calls'[i] = calls[i]
               /\ (/\ calls[i].pc \in {"StartStream", "StopStream"}
                   /\ calls' = RemoveAt(calls, i)
                   /\ last'.result.s = "fulfilled") =>
                      /\ last'.result.v = createObsStateResponse(calls[i].pc = "StartStream")
                      /\ last'.sends = 1
                      /\ last'.frame = InitialFrame(calls[i].pc = "StartStream")
      ]_vars

\* A toggle-stream request found OBS streaming, stopped the stream and was
\* answered streaming:false.
C17_Witness ==
    /\ last.op = "message"
    /\ last.pc = "done"
    /\ last.invoked = <<3>>
    /\ last.result = Fulfilled(createObsStateResponse(FALSE))
    /\ obsEnabled
    /\ ~obsStreaming

(***************************************************************************)
(* SpecCodec: the envelopes the server builds, serialized with             *)
(* JSON.stringify and parsed back with JSON.parse.                         *)
(***************************************************************************)
AuthStates == {LoggedOut, LoggedIn(clock)}

\* The envelopes the handlers, the registry and the services build at this clock.
Constructible ==
    {createHelloResponse(JStr("world"))}
    \cup {createPongResponse(JStr("pong"), RequestBody(m)) : m \in UserMessages}
    \cup {createErrorResponse(JStr("Invalid JSON format"), Undefined, RawStr(txt)) :
              txt \in RawTexts}
    \cup {createErrorResponse(JStr("Unknown event type"), Prop(d, "eventType"), Undefined) :
              d \in WellFormedDocs}
    \cup {createErrorResponse(JStr("Unknown event type"), JNumber, Undefined),
          createErrorResponse(JStr("Unknown event type"), Undefined, Undefined)}
    \cup {createObsStateResponse(b) : b \in BOOLEAN}
    \cup {createTwitchConnectResponse(TRUE, b, JStr("Connected to Twitch successfully"),
                                      Undefined) : b \in BOOLEAN}
    \cup {createTwitchConnectResponse(FALSE, FALSE, Undefined, JStr(e)) :
              e \in {"Unknown twitch action: dance", "Failed to connect to Twitch: Unknown error"}}
    \cup {createTwitchAuthResponse(TRUE, JStr("Logged out successfully"), Undefined, Undefined),
          createTwitchAuthResponse(FALSE, Undefined, JStr("Unknown auth action: dance"),
                                   Undefined),
          createTwitchAuthResponse(TRUE, Undefined, Undefined,
                                   JObj([authUrl |-> JStr("https://id.twitch.tv/oauth2/authorize")]))}
    \cup {createTwitchAuthResponse(TRUE, Undefined, Undefined, JObj([authState |-> a])) :
              a \in AuthStates}
    \cup {createTwitchAuthStateResponse(a) : a \in AuthStates}

InitCodec ==
    /\ InitCommon
    /\ handlers = << >>
    /\ obsEnabled = FALSE
    /\ obsConnected = FALSE
    /\ obsStreaming = FALSE

\* JSON.stringify(envelope), then JSON.parse of the text.
RoundTrip(envelope) ==
    /\ last' = [op |-> "roundtrip", envelope |-> envelope,
                wire |-> JSONstringify(envelope),
                parsed |-> JSONparse(JSONstringify(envelope))]
    /\ UNCHANGED <<clock, handlers, connections, readyState, sent, obsEnabled,
                   obsConnected, obsStreaming, accepted, calls, pushes,
                   twitchManager, tmi, authState, proc>>

NextCodec ==
    \/ \E envelope \in Constructible : RoundTrip(envelope)
    \/ Tick

SpecCodec == InitCodec /\ [][NextCodec]_vars

\* The value with its absent (undefined) properties left out, at every depth.
RECURSIVE Present(_)
Present(x) ==
    IF x.t = "object"
    THEN JObj([k \in {kk \in DOMAIN x.v : x.v[kk].t # "undefined"} |-> Present(x.v[k])])
    ELSE x

RECURSIVE HasNull(_)
HasNull(x) ==
    \/ x.t = "null"
    \/ x.t = "object" /\ \E k \in DOMAIN x.v : HasNull(x.v[k])

\* C18: parsing the serialized form of an envelope a builder constructed gives
\* back the envelope, absent optional fields counting as absent, and the wire
\* form has no null in the place of an absent field.
C18_RoundTrip ==
    last.op = "roundtrip" =>
        /\ last.parsed = Present(last.envelope)
        /\ ~HasNull(last.wire.doc)

PipelinedFrames ==
    {Text(Request("toggle-stream", JObj([timestamp |-> JStr("2024-12-31T23:59:59.000Z")]))),
     Text(Request("ping", RequestBody("")))}

InitPipeline ==
    /\ InitCommon
    /\ handlers = ServerHandlers
    /\ obsEnabled = TRUE
    /\ obsConnected = FALSE
    /\ obsStreaming = FALSE

NextPipeline ==
    \/ \E ws \in Conns : Accept(ws, FALSE)
    \/ \E ws \in Conns, data \in PipelinedFrames :
           pushes < MaxPipelined /\ OnMessage(ws, data, FALSE)
    \/ \E i \in DOMAIN calls, ok \in BOOLEAN : ObsConnectSettles(i, ok)
    \/ \E i \in DOMAIN calls, ok \in BOOLEAN : ObsStatusSettles(i, ok, FALSE)
    \/ \E i \in DOMAIN calls, ok \in BOOLEAN : ObsToggleSettles(i, ok, FALSE)

SpecPipeline == InitPipeline /\ [][NextPipeline]_vars

\* C20: the frames of one socket are handled one after the other: no frame of a
\* socket is dispatched while the callback of an earlier frame of that socket is
\* still suspended, and no callback ends (sending its response) while the
\* callback of an earlier frame of the same socket has not ended.
C20_PerConnectionFifo ==
    /\ \A i, j \in DOMAIN calls :
           (i < j /\ calls[i].op = "message" /\ calls[j].op = "message") =>
               calls[i].ws # calls[j].ws
    /\ last.op = "message" => last.overtaken = 0

(***************************************************************************)
(* SpecHung: the server with OBS integration on, while OBS never answers   *)
(* a StartStream or StopStream request: a toggle-stream callback that      *)
(* reaches that call stays suspended for ever.  Clients keep sending       *)
(* frames and OBS keeps reporting stream changes.                          *)
(***************************************************************************)
HungFrames ==
    PipelinedFrames \cup {Text(Request("hello", RequestBody("Hello from client!")))}

NextHung ==
    \/ \E ws \in Conns : Accept(ws, FALSE)
    \/ \E ws \in Conns, data \in HungFrames :
           pushes < MaxPipelined /\ OnMessage(ws, data, FALSE)
    \/ \E i \in DOMAIN calls, ok \in BOOLEAN : ObsConnectSettles(i, ok)
    \/ \E i \in DOMAIN calls, ok \in BOOLEAN : ObsStatusSettles(i, ok, FALSE)
    \/ \E streaming \in BOOLEAN :
           pushes < MaxPipelined /\ ObsStreamEvent(streaming, {})
    \/ \E ws \in Conns : OnClose(ws)

SpecHung == InitPipeline /\ [][NextHung]_vars

\* A message callback of socket a is suspended at an await on the OBS client.
Suspended(a) == \E i \in DOMAIN calls : calls[i].op = "message" /\ calls[i].ws = a

\* The response the server owes to a hello or ping frame.
Owed(data) ==
    IF isHelloRequest(JSONparse(Trim(data)))
    THEN createHelloResponse(JStr("world"))
    ELSE createPongResponse(JStr("pong"), Prop(JSONparse(Trim(data)), "eventBody"))

\* C21: while a message callback of socket a is suspended at its external call,
\* a hello or ping frame of another open socket b is still taken and answered in
\* the step that receives it, and a broadcast still reaches b.
C21_HungCallStallsOnlyItsTask ==
    /\ [](\A a, b \in Conns, data \in HungFrames :
              (Suspended(a) /\ a # b /\ b \in accepted /\ readyState[b] = "OPEN") =>
                  ENABLED OnMessage(b, data, FALSE))
    /\ [][\A a, b \in Conns :
              (Suspended(a) /\ a # b) =>
                  /\ \A data \in HungFrames :
                         (OnMessage(b, data, FALSE) /\ ~isToggleStreamRequest(JSONparse(Trim(data))))
                             => sent'[b] = Append(sent[b], JSONstringify(Owed(data)))
                  /\ \A streaming \in BOOLEAN :
                         (ObsStreamEvent(streaming, {}) /\ b \in Live /\ readyState[b] = "OPEN")
                             => sent'[b] = Append(sent[b],
                                    JSONstringify(createObsStateResponse(streaming)))]_vars

\* A pong reached socket 2 while the toggle-stream callback of socket 1 waits
\* for OBS to answer StartStream.
C21_Witness ==
    /\ \E i \in DOMAIN calls :
           calls[i].op = "message" /\ calls[i].ws = 1 /\ calls[i].pc = "StartStream"
    /\ last.op = "message" /\ last.ws = 2 /\ last.pc = "done"
    /\ sent[2] # << >>
    /\ Prop(sent[2][Len(sent[2])].doc, "eventType") = JStr("pong-response")

(***************************************************************************)
(* SpecShutdown: the server process from start to exit.  Sockets are       *)
(* accepted and close, the accept tasks talk to OBS, and SIGINT or SIGTERM *)
(* arrive up to MaxSignals times.  The listener reports closed when the    *)
(* ws library decides to, possibly never; a grace timer that is set fires  *)
(* unless it is cleared or the process exits first.                        *)
(***************************************************************************)
\* number of shutdown signals the process receives
MaxSignals == 2

Alive == proc.exitCode = "none"

\* A shutdown that sets no grace timer.
shutdown_noGraceTimer ==
    LET asked == IF obsEnabled THEN <<"obsService.disconnect">> ELSE << >>
    IN [proc |-> [proc EXCEPT !.signals = @ + 1, !.closing = TRUE,
                              !.log = @ \o asked \o <<"wss.close">>],
        calls |-> IF obsEnabled /\ obsConnected
                  THEN Append(calls, [op |-> "shutdown", ws |-> 0, pc |-> "disconnect"])
                  ELSE calls]

\* shutdown(): obsService.disconnect() is called and not awaited (it asks the OBS
\* client to disconnect if it is connected), the grace timer is set, and
\* wss.close is called with the callback that exits with code 0.
shutdown ==
    LET asked == IF obsEnabled THEN <<"obsService.disconnect">> ELSE << >>
    IN [proc |-> [proc EXCEPT !.signals = @ + 1, !.timers = @ + 1, !.closing = TRUE,
                              !.log = @ \o asked \o <<"setTimeout", "wss.close">>],
        calls |-> IF obsEnabled /\ obsConnected
                  THEN Append(calls, [op |-> "shutdown", ws |-> 0, pc |-> "disconnect"])
                  ELSE calls]

\* process.on('SIGINT' / 'SIGTERM')
Signal ==
    /\ proc.signals < MaxSignals
    /\ proc' = shutdown.proc
    /\ calls' = shutdown.calls
    /\ UNCHANGED <<clock, handlers, connections, readyState, sent, obsEnabled,
                   obsConnected, obsStreaming, accepted, pushes, twitchManager, tmi,
                   authState, last>>

\* await this.obs.disconnect() settles in OBSService.disconnect.
ObsDisconnectSettles(i) ==
    /\ i \in DOMAIN calls
    /\ calls[i].pc = "disconnect"
    /\ calls' = RemoveAt(calls, i)
    /\ obsConnected' = FALSE
    /\ UNCHANGED <<clock, handlers, connections, readyState, sent, obsEnabled,
                   obsStreaming, accepted, pushes, twitchManager, tmi, authState, proc,
                   last>>

\* The callback given to wss.close: clearTimeout(forceExit); process.exit(0).
CloseCallback ==
    /\ proc.closing
    /\ proc' = [proc EXCEPT !.timers = @ - 1, !.exitCode = "0",
                            !.log = Append(@, "close callback")]
    /\ UNCHANGED <<clock, handlers, connections, readyState, sent, obsEnabled,
                   obsConnected, obsStreaming, accepted, calls, pushes, twitchManager,
                   tmi, authState, last>>

\* The forceExit timer fires: process.exit(1).
ForceExit ==
    /\ proc.timers > 0
    /\ proc' = [proc EXCEPT !.exitCode = "1", !.log = Append(@, "forceExit")]
    /\ UNCHANGED <<clock, handlers, connections, readyState, sent, obsEnabled,
                   obsConnected, obsStreaming, accepted, calls, pushes, twitchManager,
                   tmi, authState, last>>

InitShutdown ==
    /\ InitCommon
    /\ handlers = ServerHandlers
    /\ obsEnabled \in BOOLEAN
    /\ obsConnected = FALSE
    /\ obsStreaming = FALSE

NextShutdown ==
    \/ \E ws \in Conns : Alive /\ ~proc.closing /\ Accept(ws, FALSE)
    \/ \E i \in DOMAIN calls, ok \in BOOLEAN : Alive /\ ObsConnectSettles(i, ok)
    \/ \E i \in DOMAIN calls, ok \in BOOLEAN : Alive /\ ObsStatusSettles(i, ok, FALSE)
    \/ \E ws \in Conns : Alive /\ OnClose(ws)
    \/ Alive /\ Signal
    \/ \E i \in DOMAIN calls : Alive /\ ObsDisconnectSettles(i)
    \/ Alive /\ CloseCallback
    \/ Alive /\ ForceExit

\* A timer that is set and not cleared fires: the event loop keeps running.
SpecShutdown == InitShutdown /\ [][NextShutdown]_vars /\ WF_vars(Alive /\ ForceExit)

Last(seq) == seq[Len(seq)]

\* C22: once a shutdown signal has arrived the process exits; by then
\* obsService.disconnect was called before anything else if OBS integration is
\* enabled (and not at all otherwise) and wss.close was called; the exit code is
\* 0 when the close callback ran and 1 when the grace timer fired.
C22_ShutdownExits ==
    /\ (proc.signals > 0) ~> (proc.exitCode # "none")
    /\ [](proc.exitCode # "none" =>
              /\ proc.signals > 0
              /\ obsEnabled <=> proc.log[1] = "obsService.disconnect"
              /\ \E k \in DOMAIN proc.log : proc.log[k] = "wss.close"
              /\ proc.exitCode = "0" <=> Last(proc.log) = "close callback"
              /\ proc.exitCode = "1" <=> Last(proc.log) = "forceExit")

\* The process has exited with code 1 after OBS was asked to disconnect.
C22_Witness ==
    /\ proc.exitCode = "1"
    /\ obsEnabled
    /\ \E i \in DOMAIN calls : calls[i].pc = "disconnect"

(***************************************************************************)
(* The Twitch side of the server: TwitchHandler and TwitchAuthHandler as   *)
(* the message callback reaches them through the registry, TwitchManager,  *)
(* TwitchAuthService and the tmi.js clients.  A request is the eventBody   *)
(* of a well-formed twitch or twitch_auth frame.  A callback suspended at  *)
(* a call on a tmi.js client records in calls[i].client the client the     *)
(* call was made on.                                                       *)
(***************************************************************************)
\* A test every value passes.
Truthy_always(x) == TRUE

\* !x is false
Truthy(x) == x.t \notin {"undefined", "null"} /\ x # JStr("") /\ x # JBool(FALSE)

\* A check that never looks at the expiry date.
isAuthenticated_ignoresExpiry ==
    /\ Truthy(Prop(authState, "isAuthenticated"))
    /\ Truthy(Prop(authState, "accessToken"))

\* TwitchAuthService.isAuthenticated()
isAuthenticated ==
    /\ Truthy(Prop(authState, "isAuthenticated"))
    /\ Truthy(Prop(authState, "accessToken"))
    /\ Prop(authState, "expiresAt").t = "date"
    /\ Prop(authState, "expiresAt").v > clock

createTwitchDisconnectResponse(success, connected, message, error) ==
    Envelope("twitch-disconnect-response",
             [success |-> JBool(success), connected |-> JBool(connected),
              message |-> message, error |-> error, timestamp |-> toISOString(clock)])

createTwitchToggleChatResponse(success, chatEnabled, message, error) ==
    Envelope("twitch-toggle-chat-response",
             [success |-> JBool(success), chatEnabled |-> JBool(chatEnabled),
              message |-> message, error |-> error, timestamp |-> toISOString(clock)])

\* The {type, data} event of a chat message or a notification raised at this clock;
\* the chat message carries its Date, the notifications its ISO string.
createTwitchEvent(type) ==
    JObj([type |-> JStr(type),
          data |-> JObj([id |-> JStr("id"), username |-> JStr("viewer"),
                         displayName |-> JStr("Viewer"),
                         timestamp |-> IF type = "twitch_chat_message"
                                       THEN JDate(clock) ELSE toISOString(clock)])])

\* The callback field each toggle request sets; the field each moderation request
\* requires, and the tmi.js request it makes.
CallbackOf ==
    [toggleSubscriptions |-> "subscriptionCallback", toggleBits |-> "bitsCallback",
     toggleFollows |-> "followCallback", toggleRaids |-> "raidCallback",
     toggleHosts |-> "hostCallback"]
RequiredOf ==
    [kickUser |-> "username", banUser |-> "username", unbanUser |-> "username",
     sendMessage |-> "message"]
RequestOf ==
    [kickUser |-> "tmi.ban", banUser |-> "tmi.ban", unbanUser |-> "tmi.unban",
     sendMessage |-> "tmi.say"]

\* A check that lets every request through.
ensureConnected_never == TRUE

\* TwitchManager.ensureConnected(): whether it returns rather than throws.
ensureConnected == twitchManager._isConnected

\* TwitchHandler.handle up to its return or its first await on a tmi.js client:
\* res is what the handler's promise is, tm and cl the TwitchManager and the
\* tmi.js clients it leaves, on the client the await is made on.
TwitchHandler_run(body, ws) ==
    LET action == Prop(body, "action")
        a == action.v
        enabled == Truthy(Prop(body, "enabled"))
        fail(e) == createTwitchConnectResponse(FALSE, FALSE, Undefined, JStr(e))
        same(res) == [res |-> res, tm |-> twitchManager, cl |-> tmi, on |-> 0]
        me == twitchManager.client
    IN CASE action = JStr("connect") ->
              IF twitchManager._isConnected
              THEN same(Fulfilled(createTwitchConnectResponse(TRUE, TRUE,
                        JStr("Connected to Twitch successfully"), Undefined)))
              ELSE IF ~isAuthenticated
              THEN same(Fulfilled(fail("Failed to connect to Twitch: Not authenticated with Twitch. Please authenticate first.")))
              ELSE IF ~Truthy(Prop(authState, "username")) \/ ~Truthy(Prop(authState, "channel"))
              THEN same(Fulfilled(fail("Failed to connect to Twitch: Missing authentication data. Please authenticate with Twitch first.")))
              ELSE [res |-> Pending("tmi.connect"),
                    tm |-> [twitchManager EXCEPT !.client = Len(tmi) + 1,
                                                 !.targetChannel = Prop(authState, "channel").v],
                    cl |-> Append(tmi, [NewClient EXCEPT !.status = "connecting"]),
                    on |-> Len(tmi) + 1]
         [] action = JStr("disconnect") ->
              IF ~twitchManager._isConnected
              THEN same(Fulfilled(createTwitchDisconnectResponse(TRUE, FALSE,
                        JStr("Disconnected from Twitch successfully"), Undefined)))
              ELSE [same(Pending("tmi.disconnect")) EXCEPT !.on = me]
         [] action = JStr("toggleChat") ->
              [same(Fulfilled(createTwitchToggleChatResponse(TRUE, enabled,
                        JStr(IF enabled THEN "Chat processing enabled"
                                        ELSE "Chat processing disabled"), Undefined)))
                  EXCEPT !.tm = [twitchManager EXCEPT
                                     !.chatCallback = IF enabled THEN ws ELSE NoCallback,
                                     !._isChatEnabled = enabled]]
         [] action.t = "string" /\ a \in DOMAIN CallbackOf ->
              [same(Fulfilled(createTwitchConnectResponse(TRUE, TRUE,
                        JStr("events toggled"), Undefined)))
                  EXCEPT !.tm = [twitchManager EXCEPT ![CallbackOf[a]] = enabled]]
         [] action.t = "string" /\ a \in DOMAIN RequiredOf ->
              IF ~Truthy(Prop(body, RequiredOf[a]))
              THEN same(Fulfilled(fail("Required field is missing")))
              ELSE IF ~ensureConnected
              THEN same(Fulfilled(fail("Failed: Not connected to Twitch IRC. Call connect() first.")))
              ELSE [res |-> Pending(RequestOf[a]),
                    tm |-> twitchManager,
                    cl |-> [tmi EXCEPT ![me].requests = @ + 1],
                    on |-> me]
         [] action = JStr("getStatus") ->
              same(Fulfilled(createTwitchConnectResponse(TRUE, twitchManager._isConnected,
                        JStr("Twitch connection status"), Undefined)))
         [] OTHER -> same(Fulfilled(fail("Unknown twitch action")))

\* ws.on('message') for a twitch frame whose eventBody is body: the registry hands
\* it to TwitchHandler (the fourth handler), and the callback sends what it returns.
TwitchOnMessage(ws, body, throws) ==
    /\ ws \in accepted
    /\ readyState[ws] = "OPEN"
    /\ pushes' = pushes + 1
    /\ LET r == TwitchHandler_run(body, ws)
           call == [op |-> "message", ws |-> ws, data |-> Text(Request("twitch", body)),
                    raw |-> Text(Request("twitch", body)), invoked |-> <<4>>,
                    pc |-> "start", result |-> r.res, sends |-> 0, frame |-> Garbage,
                    overtaken |-> Earlier(ws, Len(calls) + 1), client |-> r.on]
       IN /\ twitchManager' = r.tm
          /\ tmi' = r.cl
          /\ IF r.res.s = "pending"
             THEN /\ ~throws
                  /\ calls' = Append(calls, [call EXCEPT !.pc = r.res.v.v])
                  /\ UNCHANGED <<sent, last>>
             ELSE /\ last' = Respond(call, r.res, throws)
                  /\ sent' = SocketSend(ws, JSONstringify(r.res.v), throws)
                  /\ calls' = calls
    /\ UNCHANGED <<clock, handlers, connections, readyState, obsEnabled, obsConnected,
                   obsStreaming, accepted, authState, proc>>

\* An awaited call on a tmi.js client settles and the handler runs on to its next
\* await or to its return, after which the message callback sends the response.
TmiSettles(i, ok, throws) ==
    /\ i \in DOMAIN calls
    /\ calls[i].op = "message"
    /\ calls[i].pc \in {"tmi.connect", "tmi.join", "tmi.disconnect", "tmi.ban", "tmi.unban",
                        "tmi.say"}
    /\ LET pc == calls[i].pc
           c == calls[i].client
           fail == createTwitchConnectResponse(FALSE, FALSE, Undefined, JStr("Failed: Unknown error"))
           \* the response, if the handler returns in this step
           res == CASE pc = "tmi.connect" -> fail
                    [] pc = "tmi.join" ->
                         IF ok THEN createTwitchConnectResponse(TRUE, TRUE,
                                        JStr("Connected to Twitch successfully"), Undefined)
                         ELSE fail
                    [] pc = "tmi.disconnect" ->
                         createTwitchDisconnectResponse(TRUE, FALSE,
                             JStr("Disconnected from Twitch successfully"), Undefined)
                    [] OTHER ->
                         IF ok THEN createTwitchConnectResponse(TRUE, TRUE, JStr("Done"), Undefined)
                         ELSE fail
       IN /\ ok /\ pc \in {"tmi.join", "tmi.disconnect"} => tmi[c].status = "open"
          /\ tmi' = CASE pc = "tmi.connect" ->
                           [tmi EXCEPT ![c].status = IF ok THEN "open" ELSE "closed"]
                      [] pc = "tmi.join" /\ ok -> [tmi EXCEPT ![c].joined = TRUE]
                      [] pc = "tmi.disconnect" /\ ok ->
                           [tmi EXCEPT ![c].status = "closed", ![c].joined = FALSE]
                      [] OTHER -> tmi
          /\ twitchManager' =
                 CASE pc = "tmi.join" /\ ok -> [twitchManager EXCEPT !._isConnected = TRUE]
                   [] pc = "tmi.disconnect" /\ ok ->
                        [NewTwitchManager EXCEPT !.client = twitchManager.client,
                                                 !.targetChannel = twitchManager.targetChannel]
                   [] OTHER -> twitchManager
          /\ IF pc = "tmi.connect" /\ ok
             THEN \* await this.client.join(this.targetChannel), on the client held now
                  /\ ~throws
                  /\ calls' = [calls EXCEPT ![i].pc = "tmi.join",
                                            ![i].client = twitchManager.client]
                  /\ UNCHANGED <<sent, last>>
             ELSE /\ calls' = RemoveAt(calls, i)
                  /\ last' = Respond(Ended(i), Fulfilled(res), throws)
                  /\ sent' = SocketSend(calls[i].ws, JSONstringify(res), throws)
    /\ UNCHANGED <<clock, handlers, connections, readyState, obsEnabled, obsConnected,
                   obsStreaming, accepted, pushes, authState, proc>>

\* A chat message handed to EventService: every socket of the live set gets it.
TmiChat_broadcasts(c, throws) ==
    /\ c \in DOMAIN tmi
    /\ tmi[c].status = "open" /\ tmi[c].joined
    /\ pushes' = pushes + 1
    /\ sent' = broadcast(createTwitchEvent("twitch_chat_message"), {}).sent
    /\ last' = [op |-> "chat", client |-> c, sendOn |-> twitchManager.chatCallback]
    /\ UNCHANGED <<clock, handlers, connections, readyState, obsEnabled, obsConnected,
                   obsStreaming, accepted, calls, twitchManager, tmi, authState, proc>>

\* client.on('message') of tmi.js client c, for a message that is not the bot's own.
TmiChat(c, throws) ==
    /\ c \in DOMAIN tmi
    /\ tmi[c].status = "open" /\ tmi[c].joined
    /\ pushes' = pushes + 1
    /\ LET cb == twitchManager.chatCallback
           called == twitchManager._isChatEnabled /\ cb # NoCallback
       IN /\ sent' = IF called
                     THEN SocketSend(cb, JSONstringify(createTwitchEvent("twitch_chat_message")),
                                     throws)
                     ELSE sent
          /\ called \/ ~throws
          /\ last' = [op |-> "chat", client |-> c, sendOn |-> IF called THEN cb ELSE NoCallback]
    /\ UNCHANGED <<clock, handlers, connections, readyState, obsEnabled, obsConnected,
                   obsStreaming, accepted, calls, twitchManager, tmi, authState, proc>>

\* The event type EventService gives each tmi.js notification.
EventTypeOf ==
    [subscription |-> "twitch_subscription", resub |-> "twitch_subscription",
     subgift |-> "twitch_subscription", cheer |-> "twitch_bits", raided |-> "twitch_raid",
     hosted |-> "twitch_host"]

\* A notification broadcast only while a subscription callback is set.
TmiNotification_whenEnabled(c, kind, raises) ==
    /\ c \in DOMAIN tmi
    /\ tmi[c].status = "open" /\ tmi[c].joined
    /\ pushes' = pushes + 1
    /\ LET r == IF twitchManager.subscriptionCallback
                THEN broadcast(createTwitchEvent(EventTypeOf[kind]), raises)
                ELSE [connections |-> connections, sent |-> sent]
       IN /\ connections' = r.connections
          /\ sent' = r.sent
    /\ last' = [op |-> "notification", client |-> c, kind |-> kind, raises |-> raises]
    /\ UNCHANGED <<clock, handlers, readyState, obsEnabled, obsConnected, obsStreaming,
                   accepted, calls, twitchManager, tmi, authState, proc>>

\* client.on('subscription' / 'resub' / 'subgift' / 'cheer' / 'raided' / 'hosted') of
\* tmi.js client c: EventService broadcasts the event, then the local callback, if
\* one is set, logs it.
TmiNotification(c, kind, raises) ==
    /\ c \in DOMAIN tmi
    /\ tmi[c].status = "open" /\ tmi[c].joined
    /\ pushes' = pushes + 1
    /\ LET r == broadcast(createTwitchEvent(EventTypeOf[kind]), raises)
       IN /\ connections' = r.connections
          /\ sent' = r.sent
    /\ last' = [op |-> "notification", client |-> c, kind |-> kind, raises |-> raises]
    /\ UNCHANGED <<clock, handlers, readyState, obsEnabled, obsConnected, obsStreaming,
                   accepted, calls, twitchManager, tmi, authState, proc>>

\* client.on('message') of tmi.js client c, for a message the bot sent itself: the
\* handler returns at once.
TmiOwnMessage(c) ==
    /\ c \in DOMAIN tmi
    /\ tmi[c].status = "open" /\ tmi[c].joined
    /\ pushes' = pushes + 1
    /\ last' = [op |-> "own message", client |-> c]
    /\ UNCHANGED <<clock, handlers, connections, readyState, sent, obsEnabled,
                   obsConnected, obsStreaming, accepted, calls, twitchManager, tmi,
                   authState, proc>>

\* A disconnected event that also switches chat processing off, keeping the callback.
TmiDisconnected_disablesChat(c) ==
    /\ c \in DOMAIN tmi
    /\ tmi[c].status = "open"
    /\ tmi' = [tmi EXCEPT ![c].status = "dropped"]
    /\ twitchManager' = [twitchManager EXCEPT !._isConnected = FALSE,
                                              !._isChatEnabled = FALSE]
    /\ UNCHANGED <<clock, handlers, connections, readyState, sent, obsEnabled,
                   obsConnected, obsStreaming, accepted, calls, pushes, authState, proc,
                   last>>

\* client.on('disconnected') of tmi.js client c, its connection lost without
\* disconnect() having been called.
TmiDisconnected(c) ==
    /\ c \in DOMAIN tmi
    /\ tmi[c].status = "open"
    /\ tmi' = [tmi EXCEPT ![c].status = "dropped"]
    /\ twitchManager' = [twitchManager EXCEPT !._isConnected = FALSE]
    /\ UNCHANGED <<clock, handlers, connections, readyState, sent, obsEnabled,
                   obsConnected, obsStreaming, accepted, calls, pushes, authState, proc,
                   last>>

\* client.on('connected') of a tmi.js client that lost its connection: the client
\* was built with reconnect: true, reconnects and rejoins its channels by itself;
\* the handler logs.
TmiReconnected(c) ==
    /\ c \in DOMAIN tmi
    /\ tmi[c].status = "dropped"
    /\ tmi' = [tmi EXCEPT ![c].status = "open"]
    /\ UNCHANGED <<clock, handlers, connections, readyState, sent, obsEnabled,
                   obsConnected, obsStreaming, accepted, calls, pushes, twitchManager,
                   authState, proc, last>>

\* authState after a code exchange at clock n whose user record has no login.
LoggedInNameless(n) ==
    JObj([isAuthenticated |-> JBool(TRUE), username |-> Undefined,
          accessToken |-> JStr("token"), channel |-> Undefined, expiresAt |-> JDate(n + 1)])

\* this.authState.channel = channel
setChannel(channel) ==
    JObj([k \in DOMAIN authState.v \cup {"channel"} |->
              IF k = "channel" THEN channel ELSE authState.v[k]])

\* TwitchAuthHandler.handle up to its return or its await on the token exchange:
\* res is what the handler's promise is, auth the authState it leaves, and
\* announced whether broadcastTwitchAuthState was called.
TwitchAuthHandler_run(body) ==
    LET action == Prop(body, "action")
        same(res) == [res |-> res, auth |-> authState, announced |-> FALSE]
        fail(e) == createTwitchAuthResponse(FALSE, Undefined, JStr(e), Undefined)
    IN CASE action = JStr("getAuthUrl") ->
              same(Fulfilled(createTwitchAuthResponse(TRUE, Undefined, Undefined,
                       JObj([authUrl |-> JStr("https://id.twitch.tv/oauth2/authorize")]))))
         [] action = JStr("exchangeCode") ->
              IF ~Truthy(Prop(body, "code"))
              THEN same(Fulfilled(fail("Code is required for exchangeCode")))
              ELSE same(Pending("fetch"))
         [] action = JStr("getAuthState") ->
              same(Fulfilled(createTwitchAuthResponse(TRUE, Undefined, Undefined,
                       JObj([authState |-> authState]))))
         [] action = JStr("setChannel") ->
              IF ~Truthy(Prop(body, "channel"))
              THEN same(Fulfilled(fail("Channel is required for setChannel")))
              ELSE [res |-> Fulfilled(createTwitchAuthResponse(TRUE, JStr("Channel set"),
                                                               Undefined, Undefined)),
                    auth |-> setChannel(Prop(body, "channel")), announced |-> TRUE]
         [] action = JStr("logout") ->
              [res |-> Fulfilled(createTwitchAuthResponse(TRUE, JStr("Logged out successfully"),
                                                          Undefined, Undefined)),
               auth |-> LoggedOut, announced |-> TRUE]
         [] OTHER -> same(Fulfilled(fail("Unknown twitch_auth action")))

\* The new auth state sent to the requester alone instead of broadcast.
AnnounceAndSend_toRequester(announced, auth, ws, res, throws, raises) ==
    LET r == IF announced THEN sendToClient(ws, createTwitchAuthStateResponse(auth), raises)
             ELSE [connections |-> connections, sent |-> sent]
    IN [connections |-> r.connections,
        sent |-> IF readyState[ws] = "OPEN" /\ ~throws
                 THEN Deliver(r.sent, ws, JSONstringify(res)) ELSE r.sent]

\* broadcastTwitchAuthState(auth) if it was called, then the message callback's
\* ws.send of the response: the live set and the frames on the sockets afterwards.
AnnounceAndSend(announced, auth, ws, res, throws, raises) ==
    LET r == IF announced THEN broadcast(createTwitchAuthStateResponse(auth), raises)
             ELSE [connections |-> connections, sent |-> sent]
    IN [connections |-> r.connections,
        sent |-> IF readyState[ws] = "OPEN" /\ ~throws
                 THEN Deliver(r.sent, ws, JSONstringify(res)) ELSE r.sent]

\* ws.on('message') for a twitch_auth frame whose eventBody is body: the registry
\* hands it to TwitchAuthHandler (the fifth handler).
AuthOnMessage(ws, body, throws, raises) ==
    /\ ws \in accepted
    /\ readyState[ws] = "OPEN"
    /\ pushes' = pushes + 1
    /\ LET r == TwitchAuthHandler_run(body)
           call == [op |-> "message", ws |-> ws, data |-> Text(Request("twitch_auth", body)),
                    raw |-> Text(Request("twitch_auth", body)), invoked |-> <<5>>,
                    pc |-> "start", result |-> r.res, sends |-> 0, frame |-> Garbage,
                    overtaken |-> Earlier(ws, Len(calls) + 1), client |-> 0]
           out == AnnounceAndSend(r.announced, r.auth, ws, r.res.v, throws, raises)
       IN /\ authState' = r.auth
          /\ r.announced \/ raises = {}
          /\ IF r.res.s = "pending"
             THEN /\ ~throws
                  /\ calls' = Append(calls, [call EXCEPT !.pc = r.res.v.v])
                  /\ UNCHANGED <<connections, sent, last>>
             ELSE /\ last' = Respond(call, r.res, throws)
                  /\ connections' = out.connections
                  /\ sent' = out.sent
                  /\ calls' = calls
    /\ UNCHANGED <<clock, handlers, readyState, obsEnabled, obsConnected, obsStreaming,
                   accepted, twitchManager, tmi, proc>>

\* An exchange that, when a request fails, logs the user out and announces it.
AuthSettles_logsOutOnFailure(i, outcome, throws, raises) ==
    /\ i \in DOMAIN calls
    /\ calls[i].pc = "fetch"
    /\ LET auth == CASE outcome = "login" -> LoggedIn(clock)
                     [] outcome = "nameless" -> LoggedInNameless(clock)
                     [] OTHER -> LoggedOut
           res == IF outcome = "failed"
                  THEN createTwitchAuthResponse(FALSE, Undefined,
                                                JStr("Failed to exchange code: Unknown error"),
                                                Undefined)
                  ELSE createTwitchAuthResponse(TRUE, JStr("Authentication successful"),
                                                Undefined, JObj([authState |-> auth]))
           out == AnnounceAndSend(TRUE, auth, calls[i].ws, res, throws, raises)
       IN /\ authState' = auth
          /\ connections' = out.connections
          /\ sent' = out.sent
          /\ last' = Respond(Ended(i), Fulfilled(res), throws)
          /\ calls' = RemoveAt(calls, i)
    /\ UNCHANGED <<clock, handlers, readyState, obsEnabled, obsConnected, obsStreaming,
                   accepted, pushes, twitchManager, tmi, proc>>

\* The token exchange and the user lookup of exchangeCodeForToken settle (its
\* awaits on fetch and on response.json(), taken together): the user record has a
\* login, has none, or a request failed.
AuthSettles(i, outcome, throws, raises) ==
    /\ i \in DOMAIN calls
    /\ calls[i].pc = "fetch"
    /\ LET auth == CASE outcome = "login" -> LoggedIn(clock)
                     [] outcome = "nameless" -> LoggedInNameless(clock)
                     [] OTHER -> authState
           res == IF outcome = "failed"
                  THEN createTwitchAuthResponse(FALSE, Undefined,
                                                JStr("Failed to exchange code: Unknown error"),
                                                Undefined)
                  ELSE createTwitchAuthResponse(TRUE, JStr("Authentication successful"),
                                                Undefined, JObj([authState |-> auth]))
           out == AnnounceAndSend(outcome # "failed", auth, calls[i].ws, res, throws, raises)
       IN /\ outcome # "failed" \/ raises = {}
          /\ authState' = auth
          /\ connections' = out.connections
          /\ sent' = out.sent
          /\ last' = Respond(Ended(i), Fulfilled(res), throws)
          /\ calls' = RemoveAt(calls, i)
    /\ UNCHANGED <<clock, handlers, readyState, obsEnabled, obsConnected, obsStreaming,
                   accepted, pushes, twitchManager, tmi, proc>>

(***************************************************************************)
(* SpecTwitch: the server with OBS integration off, receiving any twitch  *)
(* and twitch_auth requests.  The token exchange and the tmi.js clients    *)
(* answer or fail; the clock stands still and no tmi.js connection drops.  *)
(***************************************************************************)
\* number of twitch and twitch_auth frames the clients send in one behaviour
MaxTwitchFrames == 3

Action(name) == JObj([action |-> JStr(name)])
ActionWith(name, key, value) == JObj([k \in {"action", key} |->
                                          IF k = "action" THEN JStr(name) ELSE value])

TwitchRequests ==
    {Action(a) : a \in {"connect", "disconnect", "getStatus", "dance", "kickUser",
                        "unbanUser", "sendMessage"}}
    \cup {ActionWith("kickUser", "username", JStr("troll")),
          ActionWith("banUser", "username", JStr("")),
          ActionWith("unbanUser", "username", JStr("troll")),
          ActionWith("sendMessage", "message", JStr("hello chat")),
          JObj(<< >>)}

AuthRequests ==
    {Action(a) : a \in {"exchangeCode", "setChannel", "logout", "getAuthState", "getAuthUrl",
                        "dance"}}
    \cup {ActionWith("exchangeCode", "code", JStr("abc")),
          ActionWith("setChannel", "channel", JStr("other"))}

InitTwitch ==
    /\ InitCommon
    /\ handlers = ServerHandlers
    /\ obsEnabled = FALSE
    /\ obsConnected = FALSE
    /\ obsStreaming = FALSE

NextTwitch ==
    \/ \E ws \in Conns : Accept(ws, FALSE)
    \/ \E ws \in Conns, body \in TwitchRequests :
           pushes < MaxTwitchFrames /\ TwitchOnMessage(ws, body, FALSE)
    \/ \E ws \in Conns, body \in AuthRequests :
           pushes < MaxTwitchFrames /\ AuthOnMessage(ws, body, FALSE, {})
    \/ \E i \in DOMAIN calls, ok \in BOOLEAN : TmiSettles(i, ok, FALSE)
    \/ \E i \in DOMAIN calls, outcome \in {"login", "nameless", "failed"} :
           AuthSettles(i, outcome, FALSE, {})

SpecTwitch == InitTwitch /\ [][NextTwitch]_vars

(***************************************************************************)
(* Properties of the Twitch requests (SpecTwitch).                         *)
(***************************************************************************)
\* The eventBody of the last frame on socket ws.
LastBody(ws) == Prop(sent[ws][Len(sent[ws])].doc, "eventBody")

\* The step appends to socket ws one frame that reports failure with an error
\* string, and no frame to any other socket.
FailureTo(ws) ==
    /\ Len(sent'[ws]) = Len(sent[ws]) + 1
    /\ SubSeq(sent'[ws], 1, Len(sent[ws])) = sent[ws]
    /\ Prop(LastBody(ws)', "success") = JBool(FALSE)
    /\ Prop(LastBody(ws)', "error").t = "string"
    /\ \A c \in Sockets \ {ws} : sent'[c] = sent[c]

\* C23: a kickUser, banUser, unbanUser or sendMessage request that has its
\* required field, received while TwitchManager is not connected, is answered
\* with success=false and an error string; no call is made on a tmi.js client and
\* TwitchManager's fields are unchanged.
C23_ModerationWhileDisconnectedFails ==
    [][\A ws \in Conns, body \in TwitchRequests :
           (/\ Prop(body, "action").t = "string"
            /\ Prop(body, "action").v \in DOMAIN RequiredOf
            /\ Truthy(Prop(body, RequiredOf[Prop(body, "action").v]))
            /\ ~twitchManager._isConnected
            /\ TwitchOnMessage(ws, body, FALSE))
           => /\ FailureTo(ws)
              /\ Prop(sent'[ws][Len(sent'[ws])].doc, "eventType") = JStr("twitch-connect-response")
              /\ tmi' = tmi
              /\ twitchManager' = twitchManager
              /\ calls' = calls]_vars

\* A kickUser request naming a user was refused while no tmi.js client had ever
\* been asked to connect.
C23_Witness ==
    /\ last.op = "message"
    /\ Prop(Prop(last.raw.doc, "eventBody"), "action") = JStr("kickUser")
    /\ Truthy(Prop(Prop(last.raw.doc, "eventBody"), "username"))
    /\ Prop(Prop(last.result.v, "eventBody"), "success") = JBool(FALSE)
    /\ ~twitchManager._isConnected
    /\ tmi = <<NewClient>>

\* An absent or empty field.
Missing(x) == x \in {Undefined, JNull, JStr("")}

\* The request lacks the field its action requires, or names no known action.
Defective(eventType, body) ==
    LET action == Prop(body, "action")
    IN IF eventType = "twitch"
       THEN \/ action.t # "string"
            \/ action.v \in DOMAIN RequiredOf /\ Missing(Prop(body, RequiredOf[action.v]))
            \/ action.v \notin DOMAIN RequiredOf \cup DOMAIN CallbackOf
                               \cup {"connect", "disconnect", "toggleChat", "getStatus"}
       ELSE \/ action.t # "string"
            \/ action = JStr("exchangeCode") /\ Missing(Prop(body, "code"))
            \/ action = JStr("setChannel") /\ Missing(Prop(body, "channel"))
            \/ action.v \notin {"getAuthUrl", "exchangeCode", "getAuthState", "setChannel",
                                "logout"}

\* C24: a twitch or twitch_auth request that lacks its required field or names
\* an unknown action is answered with success=false and an error string; no
\* call is made on a tmi.js client or to the token endpoint, TwitchManager, the
\* auth state and the live set are unchanged, and no other socket gets a frame.
C24_DefectiveRequestOnlyFails ==
    [][\A ws \in Conns :
           /\ \A body \in {b \in TwitchRequests : Defective("twitch", b)} :
                  TwitchOnMessage(ws, body, FALSE)
                      => /\ FailureTo(ws)
                         /\ UNCHANGED <<calls, tmi, twitchManager, authState, connections>>
           /\ \A body \in {b \in AuthRequests : Defective("twitch_auth", b)} :
                  AuthOnMessage(ws, body, FALSE, {})
                      => /\ FailureTo(ws)
                         /\ UNCHANGED <<calls, tmi, twitchManager, authState, connections>>]_vars

\* A kickUser request without a username was refused while TwitchManager was
\* connected, with no request made on its tmi.js client.
C24_Witness ==
    /\ last.op = "message"
    /\ Prop(last.raw.doc, "eventBody") = Action("kickUser")
    /\ Prop(Prop(last.result.v, "eventBody"), "success") = JBool(FALSE)
    /\ twitchManager._isConnected
    /\ tmi[twitchManager.client].requests = 0

\* The twitch-disconnect-response with success=true and connected=false.
SaysDisconnected(res) ==
    /\ Prop(res, "eventType") = JStr("twitch-disconnect-response")
    /\ Prop(Prop(res, "eventBody"), "success") = JBool(TRUE)
    /\ Prop(Prop(res, "eventBody"), "connected") = JBool(FALSE)

\* C25: a twitch-disconnect-response with success=true and connected=false is
\* produced only when TwitchManager is disconnected afterwards, and when the
\* tmi.js client's disconnect fails the response has success=false,
\* connected=true and an error string.
C25_DisconnectResponseIsTruthful ==
    [][\A i \in DOMAIN calls, ok \in BOOLEAN :
           (calls[i].pc = "tmi.disconnect" /\ TmiSettles(i, ok, FALSE))
           => /\ SaysDisconnected(last'.result.v) => ~twitchManager'._isConnected
              /\ ~ok => /\ Prop(Prop(last'.result.v, "eventBody"), "success") = JBool(FALSE)
                        /\ Prop(Prop(last'.result.v, "eventBody"), "connected") = JBool(TRUE)
                        /\ Prop(Prop(last'.result.v, "eventBody"), "error").t = "string"]_vars

(***************************************************************************)
(* SpecSession: the server with OBS integration off, receiving the         *)
(* requests that open and end the Twitch session: exchangeCode, logout,    *)
(* connect and disconnect.  The token exchange and the tmi.js clients      *)
(* answer or fail, a tmi.js connection may drop and come back, and the     *)
(* clock runs, so that a token expires.                                    *)
(***************************************************************************)
NextSession ==
    \/ \E ws \in Conns : Accept(ws, FALSE)
    \/ \E ws \in Conns, body \in {Action("connect"), Action("disconnect")} :
           pushes < MaxTwitchFrames /\ TwitchOnMessage(ws, body, FALSE)
    \/ \E ws \in Conns,
          body \in {ActionWith("exchangeCode", "code", JStr("abc")), Action("logout")} :
           pushes < MaxTwitchFrames /\ AuthOnMessage(ws, body, FALSE, {})
    \/ \E i \in DOMAIN calls, ok \in BOOLEAN : TmiSettles(i, ok, FALSE)
    \/ \E i \in DOMAIN calls, outcome \in {"login", "nameless", "failed"} :
           AuthSettles(i, outcome, FALSE, {})
    \/ \E c \in DOMAIN tmi : TmiDisconnected(c)
    \/ \E c \in DOMAIN tmi : TmiReconnected(c)
    \/ Tick

SpecSession == InitTwitch /\ [][NextSession]_vars

\* The tmi.js clients that are connected to Twitch, and those of them that are in
\* the channel and so raise its notifications.
ConnectedClients == {c \in DOMAIN tmi : tmi[c].status = "open"}
ListeningClients == {c \in ConnectedClients : tmi[c].joined}

\* C28: at most one tmi.js client is connected at any time, so that a Twitch
\* notification is raised by at most one client; a connect request received
\* while TwitchManager is connected creates no client.
C28_AtMostOneConnectedClient ==
    /\ [](Cardinality(ConnectedClients) <= 1)
    /\ [][\A ws \in Conns :
              (twitchManager._isConnected /\ TwitchOnMessage(ws, Action("connect"), FALSE))
                  => tmi' = tmi]_vars

\* At most one tmi.js client is in the channel: no notification is fanned out
\* twice.
C28_DuplicateFanOut == Cardinality(ListeningClients) <= 1

\* There is no token, the token has expired, or the user name or the channel is
\* missing.
CannotConnect ==
    \/ Prop(authState, "isAuthenticated") # JBool(TRUE)
    \/ Prop(authState, "accessToken").t # "string"
    \/ Prop(authState, "expiresAt").t # "date"
    \/ Prop(authState, "expiresAt").v <= clock
    \/ Prop(authState, "username").t # "string"
    \/ Prop(authState, "channel").t # "string"

\* The step answers socket ws with success=false, connected=false and an error
\* string, creates and touches no tmi.js client and leaves TwitchManager
\* disconnected.
ConnectRefused(ws) ==
    /\ FailureTo(ws)
    /\ Prop(LastBody(ws)', "connected") = JBool(FALSE)
    /\ tmi' = tmi
    /\ calls' = calls
    /\ ~twitchManager'._isConnected

\* C30 as stated: every connect request received while the auth service is not
\* authenticated, or the user name, token or channel is missing, is refused.
C30_ConnectUnauthenticatedRefused ==
    [][\A ws \in Conns :
           (CannotConnect /\ TwitchOnMessage(ws, Action("connect"), FALSE))
               => ConnectRefused(ws)]_vars

\* C30, amended: a connect request received while TwitchManager is not already
\* connected and the auth service is not authenticated, or the user name, token
\* or channel is missing, is refused.
C30_ConnectUnauthenticatedRefusedUnlessConnected ==
    [][\A ws \in Conns :
           (/\ ~twitchManager._isConnected
            /\ CannotConnect
            /\ TwitchOnMessage(ws, Action("connect"), FALSE))
               => ConnectRefused(ws)]_vars

\* A connect request was refused because the token had expired.
C30_Witness ==
    /\ last.op = "message"
    /\ Prop(last.raw.doc, "eventBody") = Action("connect")
    /\ Prop(Prop(last.result.v, "eventBody"), "success") = JBool(FALSE)
    /\ Prop(authState, "isAuthenticated") = JBool(TRUE)
    /\ Prop(authState, "username").t = "string"
    /\ Prop(authState, "expiresAt").v <= clock
    /\ tmi = <<NewClient>>

\* ---------------------------------------------------------------------------
\* Chat messages and notifications of the tmi.js client, with sockets that come
\* and go: a login, a connect, the toggles, and what the chat client raises.
\* ---------------------------------------------------------------------------

MaxChatEvents == 5

ChatRequests ==
    {ActionWith("toggleChat", "enabled", JBool(TRUE)),
     ActionWith("toggleChat", "enabled", JBool(FALSE)),
     ActionWith("toggleSubscriptions", "enabled", JBool(TRUE))}

NextChat ==
    \/ \E ws \in Conns : Accept(ws, FALSE)
    \/ \E ws \in Conns, body \in ChatRequests :
           pushes < MaxChatEvents /\ TwitchOnMessage(ws, body, FALSE)
    \/ \E ws \in Conns :
           /\ pushes = 0
           /\ AuthOnMessage(ws, ActionWith("exchangeCode", "code", JStr("abc")), FALSE, {})
    \/ \E ws \in Conns :
           pushes = 1 /\ TwitchOnMessage(ws, Action("connect"), FALSE)
    \/ \E i \in DOMAIN calls : TmiSettles(i, TRUE, FALSE)
    \/ \E i \in DOMAIN calls : AuthSettles(i, "login", FALSE, {})
    \/ \E c \in DOMAIN tmi :
           pushes < MaxChatEvents /\ TmiChat(c, FALSE)
    \/ \E c \in DOMAIN tmi, kind \in DOMAIN EventTypeOf, raises \in {{}, {1}} :
           pushes < MaxChatEvents /\ TmiNotification(c, kind, raises)
    \/ \E ws \in Conns : OnClose(ws)
    \/ \E ws \in Conns : OnError(ws)

SpecChat == InitTwitch /\ [][NextChat]_vars

\* The socket whose toggleChat callback the chat client calls, or NoCallback.
Subscriber ==
    IF twitchManager._isChatEnabled THEN twitchManager.chatCallback ELSE NoCallback

ChatText == JSONstringify(createTwitchEvent("twitch_chat_message"))

ToggleChat(enabled) == ActionWith("toggleChat", "enabled", JBool(enabled))

\* C26: a chat message is sent on the subscriber's socket and on no other, on
\* none when there is no subscriber; toggleChat(enabled=true) from a connection
\* makes that connection the subscriber in place of whichever was; and
\* toggleChat(enabled=false) from any connection leaves no subscriber.
C26_SingleChatSubscriber ==
    [][/\ \A c \in DOMAIN tmi :
              TmiChat(c, FALSE) =>
                  \A ws \in Conns :
                      sent'[ws] = IF ws = Subscriber /\ readyState[ws] = "OPEN"
                                  THEN Append(sent[ws], ChatText)
                                  ELSE sent[ws]
       /\ \A ws \in Conns :
              TwitchOnMessage(ws, ToggleChat(TRUE), FALSE) => Subscriber' = ws
       /\ \A ws \in Conns :
              TwitchOnMessage(ws, ToggleChat(FALSE), FALSE) => Subscriber' = NoCallback]_vars

\* Socket 1 subscribed, socket 2 subscribed after it, and the chat message that
\* came then went to socket 2 and not to socket 1, which is open and live.
C26_Witness ==
    /\ last.op = "chat"
    /\ last.sendOn = 2
    /\ 1 \in Live
    /\ readyState[1] = "OPEN"
    /\ sent[1] # << >>
    /\ sent[1][Len(sent[1])] =
           JSONstringify(createTwitchToggleChatResponse(TRUE, TRUE,
                             JStr("Chat processing enabled"), Undefined))
    /\ sent[2][Len(sent[2])] = ChatText

\* C27: a chat message that arrives after the subscriber's socket has left the
\* live set does not make the chat callback call send on that socket: whenever
\* the chat client calls the callback, the socket it sends on is in the live set.
C27_NoSendOnRemovedConnection ==
    [][\A c \in DOMAIN tmi :
           TmiChat(c, FALSE) => last'.sendOn \in Live \cup {NoCallback}]_vars

\* The {type, data} event of a notification, as it is written on a socket.
NotificationText(kind) == JSONstringify(createTwitchEvent(EventTypeOf[kind]))

\* The sockets of the live set that report open and on which send does not raise.
Reached(raises) == {ws \in Live : readyState[ws] = "OPEN"} \ raises

\* The action of the twitch request that call answers.
Toggled(call) == Prop(Prop(call.raw.doc, "eventBody"), "action").v

\* C29: each subscription, resub, subgift, cheer, raided and hosted notification
\* of the chat client puts one copy of its {type, data} event on every open socket
\* of the live set on which send does not raise and nothing on any other socket,
\* whatever the toggles are; and a toggle request changes only its own callback
\* field of TwitchManager and sends only its response to the requester.
C29_NotificationsBroadcastRegardlessOfToggles ==
    [][/\ (/\ pushes' = pushes + 1
           /\ last'.op = "notification"
           /\ TmiNotification(last'.client, last'.kind, last'.raises)) =>
              /\ \A ws \in Conns :
                     sent'[ws] = IF ws \in Reached(last'.raises)
                                 THEN Append(sent[ws], NotificationText(last'.kind))
                                 ELSE sent[ws]
              /\ twitchManager' = twitchManager
       /\ (/\ pushes' = pushes + 1
           /\ last'.op = "message"
           /\ Toggled(last') \in DOMAIN CallbackOf
           /\ TwitchOnMessage(last'.ws, Prop(last'.raw.doc, "eventBody"), FALSE)) =>
              /\ twitchManager' =
                     [twitchManager EXCEPT ![CallbackOf[Toggled(last')]] =
                         Prop(Prop(last'.raw.doc, "eventBody"), "enabled") = JBool(TRUE)]
              /\ connections' = connections
              /\ \A other \in Conns \ {last'.ws} : sent'[other] = sent[other]
              /\ Len(sent'[last'.ws]) = Len(sent[last'.ws]) + 1]_vars

\* A cheer arrived while the bits callback had never been set, and both sockets,
\* open and live, got the twitch_bits event.
C29_Witness ==
    /\ last.op = "notification"
    /\ last.kind = "cheer"
    /\ ~twitchManager.bitsCallback
    /\ Live = {1, 2}
    /\ \A ws \in Conns :
           /\ sent[ws] # << >>
           /\ sent[ws][Len(sent[ws])] = NotificationText("cheer")

(***************************************************************************)
(* Properties of the twitch_auth requests (SpecTwitch).                    *)
(***************************************************************************)
\* The frames a step puts on socket ws.
NewFrames(ws) == SubSeq(sent'[ws], Len(sent[ws]) + 1, Len(sent'[ws]))

\* How many of them are twitch_auth_state envelopes, and how many of them are
\* the twitch_auth_state envelope of the auth state the step leaves.
Announcements(ws) ==
    Cardinality({i \in DOMAIN NewFrames(ws) :
                     Prop(NewFrames(ws)[i].doc, "eventType") = JStr("twitch_auth_state")})
AnnouncementsOfNewState(ws) ==
    Cardinality({i \in DOMAIN NewFrames(ws) :
                     NewFrames(ws)[i] = JSONstringify(createTwitchAuthStateResponse(authState'))})

\* The action of the twitch_auth request the last call answered.
Asked == Prop(Prop(last.raw.doc, "eventBody"), "action")

\* C31: a step that changes the auth state puts exactly one twitch_auth_state
\* envelope, carrying the new state, on every open socket of the live set and
\* none on any other socket; and a getAuthUrl or getAuthState request puts no
\* twitch_auth_state envelope on any socket and leaves the auth state as it was.
C31_AuthChangeBroadcastOnce ==
    [][/\ authState' # authState =>
              \A ws \in Conns :
                  /\ Announcements(ws) = IF ws \in Live /\ readyState[ws] = "OPEN"
                                         THEN 1 ELSE 0
                  /\ AnnouncementsOfNewState(ws) = Announcements(ws)
       /\ (/\ pushes' = pushes + 1
           /\ last'.op = "message"
           /\ Asked' \in {JStr("getAuthUrl"), JStr("getAuthState")}) =>
              /\ authState' = authState
              /\ connections' = connections
              /\ \A ws \in Conns : Announcements(ws) = 0
              /\ \A ws \in Conns \ {last'.ws} : sent'[ws] = sent[ws]]_vars

\* Socket 1 logged in, then socket 2 set the channel: socket 1 got the
\* twitch_auth_state envelope of the new state as its last frame, socket 2 got it
\* followed by its response.
C31_Witness ==
    /\ last.op = "message"
    /\ last.ws = 2
    /\ Asked = JStr("setChannel")
    /\ Prop(authState, "channel") = JStr("other")
    /\ Prop(authState, "isAuthenticated") = JBool(TRUE)
    /\ sent[1] # << >>
    /\ sent[1][Len(sent[1])] = JSONstringify(createTwitchAuthStateResponse(authState))
    /\ Len(sent[2]) >= 2
    /\ sent[2][Len(sent[2]) - 1] = JSONstringify(createTwitchAuthStateResponse(authState))

\* C32: a twitch kickUser request never issues the ban operation of the tmi.js
\* client: no call that awaits client.ban was made for a kickUser request.
C32_KickNeverBans ==
    \A i \in DOMAIN calls :
        calls[i].pc = "tmi.ban" =>
            Prop(Prop(calls[i].raw.doc, "eventBody"), "action") # JStr("kickUser")

(***************************************************************************)
(* Properties of the registered handlers (SpecRegistry).                   *)
(***************************************************************************)
\* The documents canHandle can be evaluated on.
Envelopes == {d \in WellFormedDocs \cup IllFormedDocs : CanRead(d)}

\* The handlers of the server that take message.
Takers(message) == {i \in DOMAIN ServerHandlers : canHandle(ServerHandlers[i], message)}

\* C33: at most one of the five handlers the server registers takes any one
\* envelope, two envelopes with the same eventType are taken by the same
\* handlers, and a dispatch leaves the registry's handler list as it was.
C33_HandlersExclusiveAndRegistryStable ==
    /\ [](/\ \A d \in Envelopes : Cardinality(Takers(d)) <= 1
          /\ \A d, e \in Envelopes :
                 Prop(d, "eventType") = Prop(e, "eventType") => Takers(d) = Takers(e))
    /\ [][\A rawMessage \in RawTexts : Dispatch(rawMessage) => handlers' = handlers]_vars

\* A twitch_auth envelope was dispatched to a registry of two handlers, and the
\* second of them, the only one that takes it, was invoked.
C33_Witness ==
    /\ last.op = "dispatch"
    /\ handlers = <<"TwitchHandler", "TwitchAuthHandler">>
    /\ last.raw = Text(Request("twitch_auth", JObj([action |-> JStr("dance")])))
    /\ last.invoked = <<2>>

\* The frame is a twitch_auth-response with success=false and an error string.
AuthFailure(frame) ==
    /\ Prop(frame.doc, "eventType") = JStr("twitch_auth-response")
    /\ Prop(Prop(frame.doc, "eventBody"), "success") = JBool(FALSE)
    /\ Prop(Prop(frame.doc, "eventBody"), "error").t = "string"

\* C34: when the token exchange or the user lookup of an exchangeCode request
\* fails, the auth state stays as it was, no twitch_auth_state envelope is put on
\* any socket, the live set is unchanged, and the one frame of the step is a
\* twitch_auth-response with success=false and an error string on the
\* requester's socket.
C34_FailedExchangeChangesNothing ==
    [][\A i \in DOMAIN calls :
           AuthSettles(i, "failed", FALSE, {}) =>
               /\ authState' = authState
               /\ connections' = connections
               /\ \A ws \in Conns : Announcements(ws) = 0
               /\ \A ws \in Conns \ {calls[i].ws} : sent'[ws] = sent[ws]
               /\ Len(NewFrames(calls[i].ws)) = 1
               /\ AuthFailure(NewFrames(calls[i].ws)[1])]_vars

\* A code exchange failed while a user was logged in: the requester's last frame
\* is the failure response and the auth state is still that of the login.
C34_Witness ==
    /\ last.op = "message"
    /\ Asked = JStr("exchangeCode")
    /\ sent[last.ws] # << >>
    /\ AuthFailure(sent[last.ws][Len(sent[last.ws])])
    /\ Prop(Prop(sent[last.ws][Len(sent[last.ws])].doc, "eventBody"), "error")
           = JStr("Failed to exchange code: Unknown error")
    /\ authState = LoggedIn(clock)

\* The access tokens a frame carries: in the authState of a twitch_auth_state
\* envelope, or in the data of a twitch_auth-response.
TokensIn(frame) ==
    LET body == Prop(frame.doc, "eventBody")
    IN {Prop(Prop(body, "authState"), "accessToken"),
        Prop(Prop(Prop(body, "data"), "authState"), "accessToken")} \ {Undefined}

\* Socket ws was answered a successful exchangeCode request.
Exchanged(ws) ==
    \E i \in DOMAIN sent[ws] :
        /\ Prop(sent[ws][i].doc, "eventType") = JStr("twitch_auth-response")
        /\ Prop(Prop(sent[ws][i].doc, "eventBody"), "message") = JStr("Authentication successful")

\* C35: the access token of an exchange is on no socket other than the one whose
\* exchangeCode request obtained it: a socket that holds a frame carrying a token
\* is one that was answered a successful exchangeCode request.
C35_TokenOnlyToItsRequester ==
    \A ws \in Conns :
        (\E i \in DOMAIN sent[ws] : TokensIn(sent[ws][i]) # {}) => Exchanged(ws)

\* The frame is a twitch-connect-response with success=true and connected=true.
SaysConnected(frame) ==
    /\ Prop(frame.doc, "eventType") = JStr("twitch-connect-response")
    /\ Prop(Prop(frame.doc, "eventBody"), "success") = JBool(TRUE)
    /\ Prop(Prop(frame.doc, "eventBody"), "connected") = JBool(TRUE)

\* C36: a twitch-connect-response with success=true and connected=true is put on
\* a socket only by a step that leaves TwitchManager connected.
C36_ConnectedResponseIsTruthful ==
    [][\A ws \in Conns :
           (\E i \in DOMAIN NewFrames(ws) : SaysConnected(NewFrames(ws)[i]))
               => twitchManager'._isConnected]_vars

(***************************************************************************)
(* SpecChatState: one login, then connect, disconnect and toggleChat       *)
(* requests in any order while the tmi.js clients answer or fail, drop and *)
(* come back, and chat messages of viewers and of the bot arrive.          *)
(***************************************************************************)
\* number of requests and chat messages in one behaviour
MaxChatStateEvents == 4

ChatStateRequests ==
    {Action("connect"), Action("disconnect"),
     ActionWith("toggleChat", "enabled", JBool(TRUE)),
     ActionWith("toggleChat", "enabled", JBool(FALSE))}

NextChatState ==
    \/ \E ws \in Conns : Accept(ws, FALSE)
    \/ \E ws \in Conns :
           /\ pushes = 0
           /\ AuthOnMessage(ws, ActionWith("exchangeCode", "code", JStr("abc")), FALSE, {})
    \/ \E i \in DOMAIN calls : AuthSettles(i, "login", FALSE, {})
    \/ \E ws \in Conns, body \in ChatStateRequests :
           pushes < MaxChatStateEvents /\ TwitchOnMessage(ws, body, FALSE)
    \/ \E i \in DOMAIN calls, ok \in BOOLEAN : TmiSettles(i, ok, FALSE)
    \/ \E c \in DOMAIN tmi : pushes < MaxChatStateEvents /\ TmiChat(c, FALSE)
    \/ \E c \in DOMAIN tmi : pushes < MaxChatStateEvents /\ TmiOwnMessage(c)
    \/ \E c \in DOMAIN tmi : TmiDisconnected(c)
    \/ \E c \in DOMAIN tmi : TmiReconnected(c)

SpecChatState == InitTwitch /\ [][NextChatState]_vars

\* C37: isChatEnabled is true exactly when a chat callback is registered; a
\* viewer's chat message is handed to the callback only when chat is enabled,
\* and a message of the bot itself puts nothing on any socket.
C37_ChatEnabledIffCallback ==
    /\ [](twitchManager._isChatEnabled <=> twitchManager.chatCallback # NoCallback)
    /\ [][/\ \A c \in DOMAIN tmi :
                 TmiChat(c, FALSE) =>
                     /\ last'.sendOn # NoCallback => twitchManager._isChatEnabled
                     /\ ~twitchManager._isChatEnabled => sent' = sent
          /\ \A c \in DOMAIN tmi : TmiOwnMessage(c) => sent' = sent]_vars

\* Chat was enabled from socket 1 and never disabled by a toggleChat request, and
\* a disconnect request then cleared the callback and the flag together.
C37_Witness ==
    /\ last.op = "message"
    /\ Asked = JStr("disconnect")
    /\ ~twitchManager._isConnected
    /\ ~twitchManager._isChatEnabled
    /\ twitchManager.chatCallback = NoCallback
    /\ \E i \in DOMAIN sent[1] :
           /\ Prop(sent[1][i].doc, "eventType") = JStr("twitch-toggle-chat-response")
           /\ Prop(Prop(sent[1][i].doc, "eventBody"), "chatEnabled") = JBool(TRUE)
    /\ \A ws \in Conns : \A i \in DOMAIN sent[ws] :
           Prop(Prop(sent[ws][i].doc, "eventBody"), "chatEnabled") # JBool(FALSE)
    /\ \E c \in DOMAIN tmi : tmi[c].status = "closed"

(***************************************************************************)
(* Properties of the OBS service (Spec).                                   *)
(***************************************************************************)
\* The requests made on the OBS client that a callback can be suspended at.
ObsRequests == {"connect", "GetStreamStatus", "StartStream", "StopStream"}

ToggleStreamFrame ==
    Text(Request("toggle-stream", JObj([timestamp |-> JStr("2024-12-31T23:59:59.000Z")])))

DisabledState == JSONstringify(createObsStateResponse(FALSE))

\* C38: with OBS integration disabled no callback ever awaits the OBS client and
\* OBSService.isConnected stays false; an accepted socket gets an obs-state with
\* streaming=false as its first frame, and a toggle-stream request is answered
\* with an obs-state with streaming=false (the sends not raising).
C38_ObsDisabledNeverCallsObs ==
    /\ [](~obsEnabled =>
              /\ ~obsConnected
              /\ \A i \in DOMAIN calls : calls[i].pc \notin ObsRequests)
    /\ [][~obsEnabled =>
              \A ws \in Conns :
                  /\ Accept(ws, FALSE) => sent'[ws] = <<DisabledState>>
                  /\ OnMessage(ws, ToggleStreamFrame, FALSE) =>
                         sent'[ws] = Append(sent[ws], DisabledState)]_vars

\* With OBS integration disabled a socket was accepted and sent a toggle-stream
\* request: it holds the initial obs-state and the answer, both streaming=false.
C38_Witness ==
    /\ ~obsEnabled
    /\ last.op = "message"
    /\ last.raw = ToggleStreamFrame
    /\ Len(sent[last.ws]) = 2
    /\ \A i \in 1..2 :
           /\ Prop(sent[last.ws][i].doc, "eventType") = JStr("obs-state")
           /\ Prop(Prop(sent[last.ws][i].doc, "eventBody"), "streaming") = JBool(FALSE)
    /\ calls = << >>

\* The callbacks suspended at obs.connect().
ConnectsInFlight == {i \in DOMAIN calls : calls[i].pc = "connect"}

\* C39: the OBS client's connect is never invoked while an earlier connect is in
\* flight or while the service is connected: at most one callback awaits
\* obs.connect(), and none does while OBSService is connected.
C39_ObsConnectNeverOverlaps ==
    /\ Cardinality(ConnectsInFlight) <= 1
    /\ obsConnected => ConnectsInFlight = {}

====
